---- MODULE Spec2Model ----
(***************************************************************************)
(* HLV Phase-Readiness Middleware: the decision engine                     *)
(* (PhaseReadinessMiddleware, src/src/phase_readiness.cpp and              *)
(* src/include/hlv/phase_readiness.hpp).                                   *)
(*                                                                         *)
(* A C++ double is modelled as a record [k, n, d]: k = "fin" with the      *)
(* exact rational n/d in lowest terms (d > 0), or k = "nan" / "inf" for    *)
(* the non-finite values.  Arithmetic is exact; every comparison the       *)
(* engine makes on the inputs below is at least one model unit away from   *)
(* its threshold or exactly representable, so rounding does not change a   *)
(* branch.                                                                 *)
(***************************************************************************)
EXTENDS Integers, Sequences, FiniteSets, TLC

VARIABLES
  cfg_,          \* PhaseReadinessConfig of the primary engine instance
  has_prev_,     \* engine memory: a previous sample is held
  prev_t_s_,     \* engine memory: previous timestamp
  prev_temp_C_,  \* engine memory: previous temperature
  trend_dTdt_,   \* engine memory: EWMA of dT/dt
  trend_age_s_,  \* engine memory: how long the trend sign has persisted
  sig,           \* the PhaseSignals argument of the last evaluate call
  out,           \* the PhaseReadinessOutput returned by the last evaluate call
  pre,           \* the engine memory at entry of the last call
  op,            \* the last operation: "init", "evaluate" or "reset"
  mw2,           \* engine memory of a second instance (same Config)
  out2,          \* the verdict the second instance returned last
  turn,          \* which instance evaluates next in the two-instance run
  rise,          \* the current run of accepted samples with rising temperature
  stream,        \* where the sample stream fed to the engine stands
  mutex_,            \* store: "free" or the thread that holds the lock
  current_,          \* store: the current ReadinessSnapshot
  history_,          \* store: the deque of snapshots, oldest first
  max_history_size_, \* store: the history bound
  now,           \* the next reading of std::chrono::steady_clock
  pc,            \* where each thread using the store stands
  call,          \* the store call the writer thread makes or made last
  ret,           \* what each reader thread's last call returned
  log,           \* every completed update, in order
  resized,       \* the history bound was set after an update
  running_,        \* server: std::atomic<bool> running_
  should_stop_,    \* server: std::atomic<bool> should_stop_
  server_socket_,  \* server: the listening descriptor, -1 when none
  server_thread_,  \* server: the thread the std::thread object stands for,
                   \* 0 when it is not joinable
  open_fds,      \* the listening sockets that are open
  loop_pc,       \* where each accept-loop thread stands
  main_pc,       \* where the thread that owns the server stands
  result,        \* the owner's last completed call and what it returned
  phase,         \* "stopped", "started" once start() returned true,
                 \* "stopping" once stop() was called after that
  terminated,    \* std::terminate was called
  client,        \* the connection each accept-loop thread is handling
  connections,   \* how many connections accept has returned
  closes,        \* how many times each connection was closed
  served,        \* every connection handled so far, in order
  waits          \* accept calls that returned since stop() set the flag

engineVars == <<cfg_, has_prev_, prev_t_s_, prev_temp_C_, trend_dTdt_,
                trend_age_s_, sig, out, pre, op, mw2, out2, turn, rise,
                stream>>

storeVars == <<mutex_, current_, history_, max_history_size_, now, pc, call,
               ret, log, resized>>

serverVars == <<running_, should_stop_, server_socket_, server_thread_,
                open_fds, loop_pc, main_pc, result, phase, terminated>>

apiVars == <<client, connections, closes, served, waits>>

vars == <<engineVars, storeVars, serverVars, apiVars>>

----------------------------------------------------------------------------
(* Bounds *)

\* timestamps offered to the engine are k * 0.5 s for k in 0..MaxTick
MaxTick == 3

\* the writer thread makes at most MaxUpdates calls of update
MaxUpdates == 3

\* setMaxHistorySize is called with the sizes 0..MaxHistory
MaxHistory == 2

\* start() gets a listening socket at most MaxStarts times
MaxStarts == 2

\* accept returns a client socket at most MaxClients times
MaxClients == 2

\* while the server is in use the store is updated at most MaxApiUpdates
\* times
MaxApiUpdates == 1

----------------------------------------------------------------------------
(* Doubles as exact rationals *)

Abs(x) == IF x < 0 THEN -x ELSE x

RECURSIVE GCD(_, _)
GCD(a, b) == IF b = 0 THEN a ELSE GCD(b, a % b)

\* the finite double n/d (d > 0), in lowest terms
Fin(n, d) ==
  LET g == GCD(Abs(n), d)
  IN  [k |-> "fin", n |-> n \div g, d |-> d \div g]

NaN == [k |-> "nan", n |-> 0, d |-> 1]
Inf == [k |-> "inf", n |-> 1, d |-> 1]

Zero == Fin(0, 1)
One == Fin(1, 1)

is_finite(x) == x.k = "fin"

\* arithmetic; a non-finite operand gives NaN (the engine never computes with one)
DAdd(a, b) ==
  IF is_finite(a) /\ is_finite(b) THEN Fin(a.n * b.d + b.n * a.d, a.d * b.d) ELSE NaN
DSub(a, b) ==
  IF is_finite(a) /\ is_finite(b) THEN Fin(a.n * b.d - b.n * a.d, a.d * b.d) ELSE NaN
DMul(a, b) ==
  IF is_finite(a) /\ is_finite(b) THEN Fin(a.n * b.n, a.d * b.d) ELSE NaN
DDiv(a, b) ==
  IF is_finite(a) /\ is_finite(b) /\ b.n # 0
  THEN Fin((IF b.n < 0 THEN -1 ELSE 1) * a.n * b.d, a.d * Abs(b.n))
  ELSE NaN
fabs(a) == IF is_finite(a) THEN Fin(Abs(a.n), a.d) ELSE a

\* comparisons; a comparison with NaN is false, Inf is above every finite value
DLt(a, b) ==
  IF is_finite(a) /\ is_finite(b) THEN a.n * b.d < b.n * a.d
  ELSE is_finite(a) /\ b = Inf
DLe(a, b) ==
  IF is_finite(a) /\ is_finite(b) THEN a.n * b.d <= b.n * a.d
  ELSE (is_finite(a) \/ a = Inf) /\ b = Inf
DGt(a, b) == DLt(b, a)
DGe(a, b) == DLe(b, a)

\* a mutant of clamp01: only the upper end is clamped
clamp01_no_floor(x) == IF DGt(x, One) THEN One ELSE x

clamp01(x) == IF DLt(x, Zero) THEN Zero ELSE (IF DGt(x, One) THEN One ELSE x)

----------------------------------------------------------------------------
(* Types of the header *)

BLOCK == "BLOCK"
CAUTION == "CAUTION"
ALLOW == "ALLOW"
Gate == {BLOCK, CAUTION, ALLOW}

\* PhaseFlags: the bitmask is modelled as the set of the bits that are set
FLAG_NONE == {}
FLAG_INPUT_INVALID == "INPUT_INVALID"
FLAG_STALE_OR_NONMONO == "STALE_OR_NONMONO"
FLAG_TEMP_OUT_OF_RANGE == "TEMP_OUT_OF_RANGE"
FLAG_GRADIENT_TOO_HIGH == "GRADIENT_TOO_HIGH"
FLAG_PERSISTENT_HEATING == "PERSISTENT_HEATING"
FLAG_PERSISTENT_COOLING == "PERSISTENT_COOLING"
FLAG_HYSTERESIS_HIGH == "HYSTERESIS_HIGH"
FLAG_COHERENCE_LOW == "COHERENCE_LOW"
FLAG_FAILSAFE_DEFAULT == "FAILSAFE_DEFAULT"

\* a default-constructed PhaseSignals
PhaseSignals ==
  [t_s |-> Zero, temp_C |-> NaN, temp_ambient_C |-> NaN,
   hysteresis_index |-> NaN, coherence_index |-> NaN, valid |-> FALSE]

\* a value-initialized PhaseReadinessOutput
PhaseReadinessOutput ==
  [readiness |-> Zero, gate |-> BLOCK, flags |-> FLAG_NONE,
   dTdt_C_per_s |-> Zero, trend_C |-> Zero, stability_score |-> Zero]

\* the default PhaseReadinessConfig
PhaseReadinessConfig ==
  [temp_min_C |-> Fin(-20, 1), temp_max_C |-> Fin(60, 1),
   max_abs_dTdt_C_per_s |-> Fin(1, 4),
   max_abs_temp_jump_C |-> Fin(5, 1),
   ewma_alpha |-> Fin(1, 5),
   persistence_s |-> Fin(3, 1),
   hysteresis_block_threshold |-> Fin(17, 20),
   coherence_allow_threshold |-> Fin(7, 20),
   max_dt_s |-> Fin(1, 1)]

\* the engine memory of a newly constructed PhaseReadinessMiddleware
InitMemory ==
  [has_prev_ |-> FALSE, prev_t_s_ |-> Zero, prev_temp_C_ |-> NaN,
   trend_dTdt_ |-> Zero, trend_age_s_ |-> Zero]

----------------------------------------------------------------------------
(* The engine *)

\* a mutant of reset: the trend and its age survive the reset
reset_keeps_trend(m) ==
  [has_prev_ |-> FALSE, prev_t_s_ |-> Zero, prev_temp_C_ |-> NaN,
   trend_dTdt_ |-> m.trend_dTdt_, trend_age_s_ |-> m.trend_age_s_]

\* reset(): the memory it leaves
reset(m) ==
  [has_prev_ |-> FALSE, prev_t_s_ |-> Zero, prev_temp_C_ |-> NaN,
   trend_dTdt_ |-> Zero, trend_age_s_ |-> Zero]

\* a mutant of gate_from_readiness: ALLOW starts at 0.70
gate_from_readiness_low_allow(r) ==
  IF DGe(r, Fin(7, 10)) THEN ALLOW
  ELSE IF DGe(r, Fin(2, 5)) THEN CAUTION
  ELSE BLOCK

\* gate_from_readiness(r): the gate of a readiness score
gate_from_readiness(r) ==
  IF DGe(r, Fin(4, 5)) THEN ALLOW
  ELSE IF DGe(r, Fin(2, 5)) THEN CAUTION
  ELSE BLOCK

\* a mutant of fail_safe: the general fail-safe indicator is not raised
fail_safe_no_default(o, reason_flag) ==
  [readiness |-> Zero, gate |-> BLOCK,
   flags |-> o.flags \cup {reason_flag},
   dTdt_C_per_s |-> Zero, trend_C |-> Zero, stability_score |-> Zero]

\* the fail_safe lambda of evaluate, applied to the output built so far
fail_safe(o, reason_flag) ==
  [readiness |-> Zero, gate |-> BLOCK,
   flags |-> (o.flags \cup {reason_flag}) \cup {FLAG_FAILSAFE_DEFAULT},
   dTdt_C_per_s |-> Zero, trend_C |-> Zero, stability_score |-> Zero]

\* the local constant of the glitch guard
max_abs_temp_jump_C == Fin(5, 1)

\* a mutant of store_prev: the temperature is not stored
store_prev_no_temp(m, s) ==
  [m EXCEPT !.has_prev_ = TRUE, !.prev_t_s_ = s.t_s]

\* Steps 2 and 3: the sample becomes the previous sample
store_prev(m, s) ==
  [m EXCEPT !.has_prev_ = TRUE, !.prev_t_s_ = s.t_s, !.prev_temp_C_ = s.temp_C]

\* a mutant of nonmonotonic: a repeated timestamp passes
nonmonotonic_strict(dt) == DLt(dt, Zero)

\* Step 3: time went backward or stood still
nonmonotonic(dt) == DLe(dt, Zero)

\* a mutant of stale: the gap is compared with twice the maximum gap
stale_twice_max(cfg, dt) == DGt(dt, DMul(Fin(2, 1), cfg.max_dt_s))

\* Step 3: the sample gap is too large
stale(cfg, dt) == DGt(dt, cfg.max_dt_s)

\* a mutant of glitch: only a rise of the temperature counts as a jump
glitch_rise_only(cfg, m, s) ==
  DGt(DSub(s.temp_C, m.prev_temp_C_), max_abs_temp_jump_C)

\* Step 3b: the glitch guard's condition
glitch(cfg, m, s) ==
  DGt(fabs(DSub(s.temp_C, m.prev_temp_C_)), max_abs_temp_jump_C)

\* a mutant of sign_consistent: a zero derivative agrees with no trend
sign_consistent_strict(trend, dTdt) ==
  \/ (DGe(trend, Zero) /\ DGt(dTdt, Zero))
  \/ (DLt(trend, Zero) /\ DLt(dTdt, Zero))

\* Step 5: the trend direction agrees with the instantaneous derivative
sign_consistent(trend, dTdt) ==
  \/ (DGe(trend, Zero) /\ DGe(dTdt, Zero))
  \/ (DLt(trend, Zero) /\ DLt(dTdt, Zero))

\* a mutant of hysteresis_high: the index is not tested for being present
hysteresis_high_unchecked(cfg, s) ==
  DGe(s.hysteresis_index, cfg.hysteresis_block_threshold)

\* Step 7: the hysteresis index is present and at or above its threshold
hysteresis_high(cfg, s) ==
  /\ is_finite(s.hysteresis_index)
  /\ DGe(s.hysteresis_index, cfg.hysteresis_block_threshold)

\* Step 7: the coherence index is present and below its threshold
coherence_low(cfg, s) ==
  /\ is_finite(s.coherence_index)
  /\ DLt(s.coherence_index, cfg.coherence_allow_threshold)

\* a mutant of persistent_trend: the sign of the trend is not strict
persistent_trend_nonstrict(cfg, trend, age) ==
  IF DGe(age, cfg.persistence_s)
  THEN (IF DGe(trend, Zero) THEN {FLAG_PERSISTENT_HEATING}
        ELSE {FLAG_PERSISTENT_COOLING})
  ELSE {}

\* Step 7: the flag of a trend that has persisted long enough
persistent_trend(cfg, trend, age) ==
  IF DGe(age, cfg.persistence_s)
  THEN (IF DGt(trend, Zero) THEN {FLAG_PERSISTENT_HEATING}
        ELSE IF DLt(trend, Zero) THEN {FLAG_PERSISTENT_COOLING}
        ELSE {})
  ELSE {}

\* Step 7: the eligibility constraints, as the set of flags they raise
constraint_flags(cfg, s, dTdt, trend, age) ==
  LET f1 == IF DLt(s.temp_C, cfg.temp_min_C) \/ DGt(s.temp_C, cfg.temp_max_C)
            THEN {FLAG_TEMP_OUT_OF_RANGE} ELSE {}
      f2 == IF DGt(fabs(dTdt), cfg.max_abs_dTdt_C_per_s)
            THEN {FLAG_GRADIENT_TOO_HIGH} ELSE {}
      f3 == persistent_trend(cfg, trend, age)
      f4 == IF hysteresis_high(cfg, s) THEN {FLAG_HYSTERESIS_HIGH} ELSE {}
      f5 == IF coherence_low(cfg, s) THEN {FLAG_COHERENCE_LOW} ELSE {}
  IN  f1 \cup f2 \cup f3 \cup f4 \cup f5

\* a mutant of penalised: low coherence costs nothing
penalised_coherence_free(flags) ==
  LET pen(r, f, w) == IF f \in flags THEN DSub(r, w) ELSE r
      r1 == pen(One, FLAG_TEMP_OUT_OF_RANGE, Fin(60, 100))
      r2 == pen(r1, FLAG_GRADIENT_TOO_HIGH, Fin(50, 100))
      r3 == pen(r2, FLAG_HYSTERESIS_HIGH, Fin(70, 100))
      r5 == pen(r3, FLAG_PERSISTENT_HEATING, Fin(20, 100))
  IN  pen(r5, FLAG_PERSISTENT_COOLING, Fin(10, 100))

\* Step 8: the readiness score of a flag set, before clamping
penalised(flags) ==
  LET pen(r, f, w) == IF f \in flags THEN DSub(r, w) ELSE r
      r1 == pen(One, FLAG_TEMP_OUT_OF_RANGE, Fin(60, 100))
      r2 == pen(r1, FLAG_GRADIENT_TOO_HIGH, Fin(50, 100))
      r3 == pen(r2, FLAG_HYSTERESIS_HIGH, Fin(70, 100))
      r4 == pen(r3, FLAG_COHERENCE_LOW, Fin(30, 100))
      r5 == pen(r4, FLAG_PERSISTENT_HEATING, Fin(20, 100))
  IN  pen(r5, FLAG_PERSISTENT_COOLING, Fin(10, 100))

\* Step 10: the flags that force BLOCK
critical_violation(flags) ==
  \/ FLAG_TEMP_OUT_OF_RANGE \in flags
  \/ FLAG_GRADIENT_TOO_HIGH \in flags
  \/ FLAG_HYSTERESIS_HIGH \in flags

\* a mutant of safety_override: the mapped gate is returned as it is
safety_override_none(flags, g) == g

\* Step 10: the gate after the safety override
safety_override(flags, g) == IF critical_violation(flags) THEN BLOCK ELSE g

\* Steps 4..10 of evaluate: the sample passed every rejection check
accept(cfg, m, s, dt) ==
  LET dTdt == DDiv(DSub(s.temp_C, m.prev_temp_C_), dt)
      alpha == clamp01(cfg.ewma_alpha)
      trend == DAdd(DMul(alpha, dTdt), DMul(DSub(One, alpha), m.trend_dTdt_))
      age == IF sign_consistent(trend, dTdt) THEN DAdd(m.trend_age_s_, dt) ELSE Zero
      m1 == [has_prev_ |-> m.has_prev_, prev_t_s_ |-> s.t_s,
             prev_temp_C_ |-> s.temp_C, trend_dTdt_ |-> trend,
             trend_age_s_ |-> age]
      flags == constraint_flags(cfg, s, dTdt, trend, age)
      readiness == clamp01(penalised(flags))
  IN  [mem |-> m1,
       out |-> [readiness |-> readiness,
                gate |-> safety_override(flags, gate_from_readiness(readiness)),
                flags |-> flags,
                dTdt_C_per_s |-> dTdt, trend_C |-> trend,
                stability_score |-> readiness]]

\* a mutant of evaluate: a sample that came too late is not stored
evaluate_gap_keeps_prev(cfg, m, s) ==
  LET o == [PhaseReadinessOutput EXCEPT !.flags = FLAG_NONE]
      dt == DSub(s.t_s, m.prev_t_s_)
  IN  IF ~s.valid \/ ~is_finite(s.t_s) \/ ~is_finite(s.temp_C)
      THEN [mem |-> m, out |-> fail_safe(o, FLAG_INPUT_INVALID)]
      ELSE IF ~m.has_prev_
      THEN [mem |-> store_prev(m, s), out |-> fail_safe(o, FLAG_STALE_OR_NONMONO)]
      ELSE IF nonmonotonic(dt)
      THEN [mem |-> m, out |-> fail_safe(o, FLAG_STALE_OR_NONMONO)]
      ELSE IF stale(cfg, dt)
      THEN [mem |-> m, out |-> fail_safe(o, FLAG_STALE_OR_NONMONO)]
      ELSE IF glitch(cfg, m, s)
      THEN [mem |-> m, out |-> fail_safe(o, FLAG_INPUT_INVALID)]
      ELSE accept(cfg, m, s, dt)

\* a mutant of evaluate: the glitch guard is applied before the gap check
evaluate_glitch_before_gap(cfg, m, s) ==
  LET o == [PhaseReadinessOutput EXCEPT !.flags = FLAG_NONE]
      dt == DSub(s.t_s, m.prev_t_s_)
  IN  IF ~s.valid \/ ~is_finite(s.t_s) \/ ~is_finite(s.temp_C)
      THEN [mem |-> m, out |-> fail_safe(o, FLAG_INPUT_INVALID)]
      ELSE IF ~m.has_prev_
      THEN [mem |-> store_prev(m, s), out |-> fail_safe(o, FLAG_STALE_OR_NONMONO)]
      ELSE IF nonmonotonic(dt)
      THEN [mem |-> m, out |-> fail_safe(o, FLAG_STALE_OR_NONMONO)]
      ELSE IF glitch(cfg, m, s)
      THEN [mem |-> m, out |-> fail_safe(o, FLAG_INPUT_INVALID)]
      ELSE IF stale(cfg, dt)
      THEN [mem |-> store_prev(m, s), out |-> fail_safe(o, FLAG_STALE_OR_NONMONO)]
      ELSE accept(cfg, m, s, dt)

\* evaluate(in): the memory it leaves and the verdict it returns
evaluate(cfg, m, s) ==
  LET o == [PhaseReadinessOutput EXCEPT !.flags = FLAG_NONE]
      dt == DSub(s.t_s, m.prev_t_s_)
  IN  IF ~s.valid \/ ~is_finite(s.t_s) \/ ~is_finite(s.temp_C)
      THEN [mem |-> m, out |-> fail_safe(o, FLAG_INPUT_INVALID)]
      ELSE IF ~m.has_prev_
      THEN [mem |-> store_prev(m, s), out |-> fail_safe(o, FLAG_STALE_OR_NONMONO)]
      ELSE IF nonmonotonic(dt)
      THEN [mem |-> m, out |-> fail_safe(o, FLAG_STALE_OR_NONMONO)]
      ELSE IF stale(cfg, dt)
      THEN [mem |-> store_prev(m, s), out |-> fail_safe(o, FLAG_STALE_OR_NONMONO)]
      ELSE IF glitch(cfg, m, s)
      THEN [mem |-> m, out |-> fail_safe(o, FLAG_INPUT_INVALID)]
      ELSE accept(cfg, m, s, dt)

----------------------------------------------------------------------------
(* Inputs *)

Times == {Fin(k, 2) : k \in 0..MaxTick} \cup {Fin(1, 10)}

Temps == {Fin(20, 1), Fin(25, 1), Fin(501, 20), Fin(40, 1), Fin(120, 1)}

\* (hysteresis_index, coherence_index) pairs the telemetry source supplies
Indicators ==
  {<<NaN, NaN>>, <<Fin(9, 10), NaN>>, <<NaN, Fin(1, 10)>>, <<Fin(1, 2), Fin(1, 2)>>,
   <<Inf, Inf>>}

\* the indicators accompany the samples of one temperature only
IndicatorTemps == {Fin(25, 1)}

IndicatorsAt(c) == IF c \in IndicatorTemps THEN Indicators ELSE {<<NaN, NaN>>}

ValidSignals ==
  UNION {{[t_s |-> t, temp_C |-> c, temp_ambient_C |-> NaN,
           hysteresis_index |-> i[1], coherence_index |-> i[2], valid |-> TRUE] :
             t \in Times, i \in IndicatorsAt(c)} : c \in Temps}

InvalidSignals ==
  {[PhaseSignals EXCEPT !.temp_C = Fin(25, 1)],
   [PhaseSignals EXCEPT !.valid = TRUE],
   [PhaseSignals EXCEPT !.valid = TRUE, !.t_s = NaN, !.temp_C = Fin(25, 1)],
   [PhaseSignals EXCEPT !.valid = TRUE, !.t_s = Fin(1, 2), !.temp_C = Inf]}

Signals == ValidSignals \cup InvalidSignals

\* the default Config, and one that changes the persistence duration, the
\* plausible-jump limit and the derivative limit
Configs ==
  {PhaseReadinessConfig,
   [PhaseReadinessConfig EXCEPT !.persistence_s = Fin(1, 1),
                                !.max_abs_temp_jump_C = Fin(10, 1),
                                !.max_abs_dTdt_C_per_s = Fin(20, 1)]}

----------------------------------------------------------------------------
(* Shared state store (ReadinessAPIState): data and member functions *)

\* the writer thread (the readiness loop) and the reader threads of
\* test_api_state_thread_safety
Writer == "writer"
Reader1 == "reader1"
Reader2 == "reader2"
Readers == {Reader1, Reader2}
Threads == {Writer} \cup Readers

\* max_history_size_ after construction
DefaultMaxHistorySize == 100

\* the max_count handleHistory passes to getHistory
ApiHistoryCount == 100

\* a mutant of ReadinessSnapshot: the constructor leaves a ready snapshot
ReadinessSnapshot_ready ==
  [timestamp |-> 0, t_s |-> Zero, readiness |-> One, gate |-> ALLOW,
   flags |-> FLAG_NONE, temp_C |-> NaN, temp_ambient_C |-> NaN,
   dTdt_C_per_s |-> Zero, trend_C |-> Zero, stability_score |-> One,
   hysteresis_index |-> NaN, coherence_index |-> NaN]

\* the ReadinessSnapshot the constructor leaves in current_; the
\* steady_clock reading is a natural number
ReadinessSnapshot ==
  [timestamp |-> 0, t_s |-> Zero, readiness |-> Zero, gate |-> BLOCK,
   flags |-> FLAG_NONE, temp_C |-> NaN, temp_ambient_C |-> NaN,
   dTdt_C_per_s |-> Zero, trend_C |-> Zero, stability_score |-> Zero,
   hysteresis_index |-> NaN, coherence_index |-> NaN]

\* a mutant of try_lock: the lock is taken whoever holds it
try_lock_unguarded(m) == TRUE

\* std::lock_guard: the constructor returns only when the mutex is free
try_lock(m) == m = "free"

\* update, the assignments to current_ up to flags
write_head(c, t, signals, output) ==
  [c EXCEPT !.timestamp = t,
            !.t_s = signals.t_s,
            !.readiness = output.readiness,
            !.gate = output.gate,
            !.flags = output.flags]

\* a mutant of write_tail: the two indices are not copied
write_tail_no_indices(c, signals, output) ==
  [c EXCEPT !.temp_C = signals.temp_C,
            !.temp_ambient_C = signals.temp_ambient_C,
            !.dTdt_C_per_s = output.dTdt_C_per_s,
            !.trend_C = output.trend_C,
            !.stability_score = output.stability_score]

\* update, the assignments to current_ from temp_C on
write_tail(c, signals, output) ==
  [c EXCEPT !.temp_C = signals.temp_C,
            !.temp_ambient_C = signals.temp_ambient_C,
            !.dTdt_C_per_s = output.dTdt_C_per_s,
            !.trend_C = output.trend_C,
            !.stability_score = output.stability_score,
            !.hysteresis_index = signals.hysteresis_index,
            !.coherence_index = signals.coherence_index]

push_back(h, e) == Append(h, e)

\* a mutant of pop_front: the newest entry is removed
pop_back(h) == SubSeq(h, 1, Len(h) - 1)

pop_front(h) == Tail(h)

\* a mutant of history_overflow: one entry too many is tolerated
history_overflow_by_two(h, max) == Len(h) > max + 1

\* the condition of the trim loops
history_overflow(h, max) == Len(h) > max

\* std::min on size_t
min(a, b) == IF b < a THEN b ELSE a

\* a mutant of getHistory: the first entries are returned
getHistory_from_front(h, max_count) ==
  LET count == min(max_count, Len(h))
  IN  SubSeq(h, 1, count)

\* getHistory: the last min(max_count, size) entries, oldest first
getHistory(h, max_count) ==
  LET count == min(max_count, Len(h))
  IN  SubSeq(h, Len(h) - count + 1, Len(h))

gateToString(g) ==
  CASE g = BLOCK -> "BLOCK"
    [] g = CAUTION -> "CAUTION"
    [] g = ALLOW -> "ALLOW"
    [] OTHER -> "UNKNOWN"

\* the JSON document handleHistory builds from getHistory(100): the count
\* and, per sample, five fields; a non-finite temperature is written null
handleHistory(h) ==
  LET history == getHistory(h, ApiHistoryCount)
  IN  [count |-> Len(history),
       samples |->
         [i \in 1..Len(history) |->
            [timestamp_s |-> history[i].t_s,
             readiness |-> history[i].readiness,
             gate |-> gateToString(history[i].gate),
             temperature_C |-> IF is_finite(history[i].temp_C)
                               THEN history[i].temp_C ELSE "null",
             gradient_C_per_s |-> history[i].dTdt_C_per_s]]]

\* the (signals, output) pairs the writer passes to update: those of
\* test_api_state_basic, of the last round of test_api_state_history and
\* of test_nan_handling
StoreUpdates ==
  {[signals |-> [PhaseSignals EXCEPT !.t_s = One, !.temp_C = Fin(25, 1),
                                     !.temp_ambient_C = Fin(22, 1),
                                     !.valid = TRUE,
                                     !.coherence_index = Fin(1, 2),
                                     !.hysteresis_index = Fin(3, 10)],
    output |-> [readiness |-> Fin(17, 20), gate |-> ALLOW, flags |-> FLAG_NONE,
                dTdt_C_per_s |-> Fin(1, 10), trend_C |-> Fin(1, 20),
                stability_score |-> Fin(17, 20)]],
   [signals |-> [PhaseSignals EXCEPT !.t_s = Fin(9, 10),
                                     !.temp_C = Fin(259, 10),
                                     !.valid = TRUE],
    output |-> [PhaseReadinessOutput EXCEPT !.readiness = Fin(19, 20),
                                            !.gate = CAUTION]]}

\* the sizes passed to setMaxHistorySize and the counts passed to getHistory
HistorySizes == 0..MaxHistory
HistoryCounts == (0..(MaxHistory - 1)) \cup {ApiHistoryCount}

\* the writer has made no call; no reader call has returned
NoCall ==
  [name |-> "none", signals |-> PhaseSignals, output |-> PhaseReadinessOutput,
   size |-> 0, timestamp |-> 0,
   pre_current |-> ReadinessSnapshot, pre_history |-> <<>>]

NoReturn == [name |-> "none", max_count |-> 0, done |-> FALSE,
             value |-> <<>>, updates |-> 0]

\* the store after construction, no thread inside a call
StoreInit ==
  /\ mutex_ = "free"
  /\ current_ = ReadinessSnapshot
  /\ history_ = <<>>
  /\ max_history_size_ = DefaultMaxHistorySize
  /\ now = 1
  /\ pc = [t \in Threads |-> "idle"]
  /\ call = NoCall
  /\ ret = [r \in Readers |-> NoReturn]
  /\ log = <<>>
  /\ resized = FALSE

----------------------------------------------------------------------------
(* REST API server (RestAPIServer): lifecycle data *)

\* the accept-loop threads start() can spawn, named by the descriptor of
\* the listening socket opened just before
LoopThreads == 1..MaxStarts

\* what accept returns: a timeout (EAGAIN / EWOULDBLOCK), a client socket
\* or another error
AcceptOutcomes == {"timeout", "client", "error"}

\* the server after construction, its owner outside any call
ServerInit ==
  /\ running_ = FALSE
  /\ should_stop_ = FALSE
  /\ server_socket_ = -1
  /\ server_thread_ = 0
  /\ open_fds = {}
  /\ loop_pc = [t \in LoopThreads |-> "none"]
  /\ main_pc = "idle"
  /\ result = [name |-> "none", value |-> FALSE]
  /\ phase = "stopped"
  /\ terminated = FALSE

----------------------------------------------------------------------------
(* REST API server (RestAPIServer): requests and responses *)

\* A request is the text recv delivered, as a sequence of pieces: a piece
\* is one whitespace character or a run of characters without whitespace.

\* std::isspace, which operator>> uses to delimit a word
isspace(c) == c \in {" ", "\t", "\n", "\r"}

\* a mutant of getline: the newline does not end the line
getline_whole_text(text) == text

\* std::getline(iss, line): the text up to the first newline, which is
\* dropped, or up to the end
getline(text) ==
  LET ends == {i \in 1..Len(text) : text[i] = "\n"}
  IN  IF ends = {} THEN text
      ELSE SubSeq(text, 1, (CHOOSE i \in ends : \A j \in ends : i <= j) - 1)

\* line_stream >> word: leading whitespace is skipped, then the characters
\* up to the next whitespace are extracted; fails when none is left
extract(line) ==
  LET n == Len(line)
      starts == {i \in 1..(n + 1) : i = n + 1 \/ ~isspace(line[i])}
      start == CHOOSE i \in starts : \A j \in starts : i <= j
      stops == {i \in start..(n + 1) : i = n + 1 \/ isspace(line[i])}
      stop == CHOOSE i \in stops : \A j \in stops : i <= j
  IN  [ok |-> start < stop, word |-> SubSeq(line, start, stop - 1),
       rest |-> SubSeq(line, stop, n)]

\* a mutant of parseRequest: the words are taken from the whole text
parseRequest_whole_text(request) ==
  LET m == extract(request)
      p == extract(m.rest)
      v == extract(p.rest)
  IN  IF request = <<>> \/ ~(m.ok /\ p.ok /\ v.ok)
      THEN [ok |-> FALSE, method |-> <<>>, path |-> <<>>, version |-> <<>>]
      ELSE [ok |-> TRUE, method |-> m.word, path |-> p.word,
            version |-> v.word]

\* parseRequest: getline fails on an empty text; a trailing carriage return
\* is removed from the line; its first three words are the method, the path
\* and the version
parseRequest(request) ==
  LET got == getline(request)
      line == IF got # <<>> /\ got[Len(got)] = "\r"
              THEN SubSeq(got, 1, Len(got) - 1) ELSE got
      m == extract(line)
      p == extract(m.rest)
      v == extract(p.rest)
  IN  IF request = <<>> \/ ~(m.ok /\ p.ok /\ v.ok)
      THEN [ok |-> FALSE, method |-> <<>>, path |-> <<>>, version |-> <<>>]
      ELSE [ok |-> TRUE, method |-> m.word, path |-> p.word,
            version |-> v.word]

\* makeJsonError: the error document; the message is a sequence of strings
makeJsonError(code, message) ==
  [error |-> [code |-> code, message |-> message]]

\* makeHttpResponse: the status line, the content type and the body
makeHttpResponse(status_code, status_text, body, content_type) ==
  [status |-> status_code, text |-> status_text,
   content_type |-> content_type, body |-> body]

\* the JSON documents of the handlers; flags is written as the set of the
\* bits that are set, a non-finite optional value as null
handleHealth ==
  [status |-> "ok", service |-> "HLV Phase Readiness Middleware",
   version |-> "1.0.0"]

handleReadiness(snapshot) ==
  [readiness |-> snapshot.readiness,
   gate |-> gateToString(snapshot.gate),
   timestamp_s |-> snapshot.t_s,
   flags |-> snapshot.flags,
   stability_score |-> snapshot.stability_score]

handleThermal(snapshot) ==
  [temperature_C |-> IF is_finite(snapshot.temp_C)
                     THEN snapshot.temp_C ELSE "null",
   ambient_C |-> IF is_finite(snapshot.temp_ambient_C)
                 THEN snapshot.temp_ambient_C ELSE "null",
   gradient_C_per_s |-> snapshot.dTdt_C_per_s,
   trend_C |-> snapshot.trend_C,
   timestamp_s |-> snapshot.t_s]

handlePhaseContext(snapshot) ==
  [hysteresis_index |-> IF is_finite(snapshot.hysteresis_index)
                        THEN snapshot.hysteresis_index ELSE "null",
   coherence_index |-> IF is_finite(snapshot.coherence_index)
                       THEN snapshot.coherence_index ELSE "null",
   gradient_persistence |-> snapshot.trend_C,
   gate |-> gateToString(snapshot.gate),
   timestamp_s |-> snapshot.t_s]

handleDiagnostics(snapshot) ==
  [flags |-> snapshot.flags,
   flag_meanings |->
     [input_invalid |-> FLAG_INPUT_INVALID \in snapshot.flags,
      stale_or_nonmono |-> FLAG_STALE_OR_NONMONO \in snapshot.flags,
      temp_out_of_range |-> FLAG_TEMP_OUT_OF_RANGE \in snapshot.flags,
      gradient_too_high |-> FLAG_GRADIENT_TOO_HIGH \in snapshot.flags,
      persistent_heating |-> FLAG_PERSISTENT_HEATING \in snapshot.flags,
      persistent_cooling |-> FLAG_PERSISTENT_COOLING \in snapshot.flags,
      hysteresis_high |-> FLAG_HYSTERESIS_HIGH \in snapshot.flags,
      coherence_low |-> FLAG_COHERENCE_LOW \in snapshot.flags,
      failsafe_default |-> FLAG_FAILSAFE_DEFAULT \in snapshot.flags],
   readiness |-> snapshot.readiness,
   gate |-> gateToString(snapshot.gate),
   stability_score |-> snapshot.stability_score,
   timestamp_s |-> snapshot.t_s]

\* the paths handleClient routes to a handler that reads the store
StorePaths ==
  {<<"/api/readiness">>, <<"/api/thermal">>, <<"/api/history">>,
   <<"/api/phase_context">>, <<"/api/diagnostics">>}

\* handleClient, lines 253-271, once the store was read if the path asks
\* for it: the body of the routed handler, or the 404 document
route(path, snapshot, history) ==
  CASE path = <<"/health">> ->
         [status |-> 200, text |-> "OK", body |-> handleHealth]
    [] path = <<"/api/readiness">> ->
         [status |-> 200, text |-> "OK", body |-> handleReadiness(snapshot)]
    [] path = <<"/api/thermal">> ->
         [status |-> 200, text |-> "OK", body |-> handleThermal(snapshot)]
    [] path = <<"/api/history">> ->
         [status |-> 200, text |-> "OK", body |-> handleHistory(history)]
    [] path = <<"/api/phase_context">> ->
         [status |-> 200, text |-> "OK",
          body |-> handlePhaseContext(snapshot)]
    [] path = <<"/api/diagnostics">> ->
         [status |-> 200, text |-> "OK", body |-> handleDiagnostics(snapshot)]
    [] OTHER ->
         [status |-> 404, text |-> "Not Found",
          body |-> makeJsonError(404, <<"Endpoint not found">>)]

\* what a client sends first: well-formed requests for every route, with
\* and without headers and body, other methods, unknown paths, and request
\* lines with fewer than three words
Requests ==
  {<<"GET", " ", "/health", " ", "HTTP/1.1", "\r", "\n", "\r", "\n">>,
   <<"GET", " ", "/health", " ", "HTTP/1.1", "\r", "\n",
     "Host:", " ", "a", "\r", "\n", "\r", "\n">>,
   <<" ", "GET", "\t", "/health", " ", " ", "HTTP/1.0", " ", "x", "\n">>,
   <<"GET", " ", "/api/readiness", " ", "HTTP/1.1", "\r", "\n", "\r", "\n">>,
   <<"GET", " ", "/api/readiness", " ", "HTTP/1.1", "\r", "\n",
     "Accept:", " ", "POST", "\r", "\n", "\r", "\n", "body">>,
   <<"GET", " ", "/api/thermal", " ", "HTTP/1.1", "\r", "\n", "\r", "\n">>,
   <<"GET", " ", "/api/history", " ", "HTTP/1.1", "\r", "\n", "\r", "\n">>,
   <<"GET", " ", "/api/phase_context", " ", "HTTP/1.1", "\n", "\n">>,
   <<"GET", " ", "/api/diagnostics", " ", "HTTP/1.1">>,
   <<"GET", " ", "/api/unknown", " ", "HTTP/1.1", "\r", "\n", "\r", "\n">>,
   <<"GET", " ", "/health/", " ", "HTTP/1.1", "\r", "\n", "\r", "\n">>,
   <<"POST", " ", "/health", " ", "HTTP/1.1", "\r", "\n", "\r", "\n">>,
   <<"POST", " ", "/api/unknown", " ", "HTTP/1.1", "\r", "\n",
     "Content-Length:", " ", "1", "\r", "\n", "\r", "\n", "x">>,
   <<"get", " ", "/health", " ", "HTTP/1.1", "\r", "\n", "\r", "\n">>,
   <<"GET", " ", "/health", "\r", "\n", "Host:", " ", "a", "\r", "\n">>,
   <<"GET", " ", "/health", "\r", "\n", "\r", "\n">>,
   <<"\r", "\n", "GET", " ", "/health", " ", "HTTP/1.1", "\r", "\n">>,
   <<>>}

\* handleClient, lines 229-231: what parseRequest gives for each request,
\* computed once
parsed_requests == [request \in Requests |-> parseRequest(request)]

\* the requests sent while the server is started and stopped
LifecycleRequests ==
  {<<"GET", " ", "/health", " ", "HTTP/1.1", "\r", "\n", "\r", "\n">>,
   <<"GET", " ", "/api/readiness", " ", "HTTP/1.1", "\r", "\n", "\r", "\n">>}

\* an accept-loop thread that holds no connection
NoClient ==
  [id |-> 0, read |-> FALSE, request |-> <<>>, parsed |-> parsed_requests[<<>>],
   status |-> 0, response |-> <<>>, threw |-> FALSE,
   store |-> <<>>]

\* the thread that holds the store's lock on behalf of a handler
Handler == "handler"

\* no connection was accepted yet
ApiInit ==
  /\ client = [t \in LoopThreads |-> NoClient]
  /\ connections = 0
  /\ closes = [c \in 1..MaxClients |-> 0]
  /\ served = <<>>
  /\ waits = 0

----------------------------------------------------------------------------
(* State machine of one engine instance *)

\* no run of rising samples is under way
NoRise == [span |-> Zero, tail |-> Zero, from_nonneg |-> TRUE]

\* no sample has been fed yet
NoStream ==
  [phase |-> "start", was |-> "start", last_t |-> Zero, last_temp |-> NaN,
   anchor_t |-> Zero, late_t |-> Zero, level |-> NaN, rejected |-> 0,
   after |-> 0, recovered |-> FALSE]

Memory ==
  [has_prev_ |-> has_prev_, prev_t_s_ |-> prev_t_s_, prev_temp_C_ |-> prev_temp_C_,
   trend_dTdt_ |-> trend_dTdt_, trend_age_s_ |-> trend_age_s_]

SetMemory(m) ==
  /\ has_prev_' = m.has_prev_
  /\ prev_t_s_' = m.prev_t_s_
  /\ prev_temp_C_' = m.prev_temp_C_
  /\ trend_dTdt_' = m.trend_dTdt_
  /\ trend_age_s_' = m.trend_age_s_

Init ==
  /\ cfg_ \in Configs
  /\ has_prev_ = InitMemory.has_prev_
  /\ prev_t_s_ = InitMemory.prev_t_s_
  /\ prev_temp_C_ = InitMemory.prev_temp_C_
  /\ trend_dTdt_ = InitMemory.trend_dTdt_
  /\ trend_age_s_ = InitMemory.trend_age_s_
  /\ sig = PhaseSignals
  /\ out = PhaseReadinessOutput
  /\ pre = InitMemory
  /\ op = "init"
  /\ mw2 = InitMemory
  /\ out2 = PhaseReadinessOutput
  /\ turn = 1
  /\ rise = NoRise
  /\ stream = NoStream
  /\ StoreInit
  /\ ServerInit
  /\ ApiInit

Evaluate(s) ==
  LET r == evaluate(cfg_, Memory, s)
  IN  /\ SetMemory(r.mem)
      /\ out' = r.out
      /\ sig' = s
      /\ pre' = Memory
      /\ op' = "evaluate"
      /\ UNCHANGED <<cfg_, mw2, out2, turn, rise, stream>>
      /\ UNCHANGED <<storeVars, serverVars, apiVars>>

Reset ==
  /\ SetMemory(reset(Memory))
  /\ pre' = Memory
  /\ op' = "reset"
  /\ UNCHANGED <<cfg_, sig, out, mw2, out2, turn, rise, stream>>
  /\ UNCHANGED <<storeVars, serverVars, apiVars>>

Next ==
  \/ \E s \in Signals : Evaluate(s)
  \/ Reset

Spec == Init /\ [][Next]_vars

----------------------------------------------------------------------------
(* Two engine instances with the same Config, fed the same sample sequence *)
(* (test_determinism): the first instance evaluates a sample, then the     *)
(* second instance evaluates the same sample.                              *)

\* a mutant of InstanceMemory: the memory is shared by all instances (static)
InstanceMemory_static(i) == Memory

\* the private data members of instance i
InstanceMemory(i) == IF i = 1 THEN Memory ELSE mw2

DetEvaluate1(s) ==
  /\ turn = 1
  /\ LET r == evaluate(cfg_, InstanceMemory(1), s)
     IN  /\ SetMemory(r.mem)
         /\ out' = r.out
  /\ sig' = s
  /\ pre' = Memory
  /\ op' = "evaluate"
  /\ turn' = 2
  /\ UNCHANGED <<cfg_, mw2, out2, rise, stream>>
  /\ UNCHANGED <<storeVars, serverVars, apiVars>>

DetEvaluate2 ==
  /\ turn = 2
  /\ LET r == evaluate(cfg_, InstanceMemory(2), sig)
     IN  /\ mw2' = r.mem
         /\ out2' = r.out
  /\ turn' = 1
  /\ UNCHANGED <<cfg_, has_prev_, prev_t_s_, prev_temp_C_, trend_dTdt_,
                 trend_age_s_, sig, out, pre, op, rise, stream>>
  /\ UNCHANGED <<storeVars, serverVars, apiVars>>

DetReset ==
  /\ turn = 1
  /\ SetMemory(reset(InstanceMemory(1)))
  /\ mw2' = reset(InstanceMemory(2))
  /\ pre' = Memory
  /\ op' = "reset"
  /\ UNCHANGED <<cfg_, sig, out, out2, turn, rise, stream>>
  /\ UNCHANGED <<storeVars, serverVars, apiVars>>

NextDet ==
  \/ \E s \in Signals : DetEvaluate1(s)
  \/ DetEvaluate2
  \/ DetReset

SpecDet == Init /\ [][NextDet]_vars

----------------------------------------------------------------------------
(* One engine instance, with the current run of accepted samples whose     *)
(* temperature rose recorded beside it (test_persistent_heating): span is  *)
(* the sum of the dt of the samples of the run (the time since the sample  *)
(* before the run), tail is the time from the first to the last sample of  *)
(* the run, from_nonneg tells whether the smoothed trend was >= 0 when the *)
(* run began.                                                              *)

RunEvaluate(s) ==
  LET r == evaluate(cfg_, Memory, s)
      accepted == FLAG_FAILSAFE_DEFAULT \notin r.out.flags
      rising == DGt(s.temp_C, prev_temp_C_)
      dt == DSub(s.t_s, prev_t_s_)
  IN  /\ SetMemory(r.mem)
      /\ out' = r.out
      /\ sig' = s
      /\ pre' = Memory
      /\ op' = "evaluate"
      /\ rise' = IF ~accepted THEN rise
                 ELSE IF ~rising THEN NoRise
                 ELSE IF rise.span = Zero
                 THEN [span |-> dt, tail |-> Zero,
                       from_nonneg |-> DGe(trend_dTdt_, Zero)]
                 ELSE [rise EXCEPT !.span = DAdd(rise.span, dt),
                                   !.tail = DAdd(rise.tail, dt)]
      /\ UNCHANGED <<cfg_, mw2, out2, turn, stream>>
      /\ UNCHANGED <<storeVars, serverVars, apiVars>>

RunReset ==
  /\ SetMemory(reset(Memory))
  /\ pre' = Memory
  /\ op' = "reset"
  /\ rise' = NoRise
  /\ UNCHANGED <<cfg_, sig, out, mw2, out2, turn, stream>>
  /\ UNCHANGED <<storeVars, serverVars, apiVars>>

NextRun ==
  \/ \E s \in Signals : RunEvaluate(s)
  \/ RunReset

SpecRun == Init /\ [][NextRun]_vars

----------------------------------------------------------------------------
(* One engine instance fed a stream of valid samples without indicators.   *)
(* stream records, from the samples alone, where the stream stands:        *)
(* last_t and last_temp are the time and temperature of the last sample    *)
(* of the stream proper, anchor_t the time of the last sample before a     *)
(* step of the temperature, level the temperature after the step, late_t   *)
(* the time of the last sample that came more than the maximum gap after   *)
(* the sample before it, rejected the number of samples since the step     *)
(* that came within the maximum gap of anchor_t, after the number of       *)
(* well-formed samples since a sample with a wrong timestamp, recovered    *)
(* whether one of them got a non-fail-safe verdict.                        *)

StreamTimes == {Fin(k, 2) : k \in 0..(MaxTick + 2)}

StreamTemps == {Fin(20, 1), Fin(25, 1), Fin(40, 1)}

StreamSignals ==
  {[PhaseSignals EXCEPT !.valid = TRUE, !.t_s = t, !.temp_C = c] :
     t \in StreamTimes, c \in StreamTemps}

\* the sample follows the last sample of the stream at a later time, within
\* the maximum gap, with a temperature step within the configured limit
WellFormed(s) ==
  stream.phase # "start" =>
    /\ DGt(s.t_s, stream.last_t)
    /\ DLe(DSub(s.t_s, stream.last_t), cfg_.max_dt_s)
    /\ DLe(fabs(DSub(s.temp_C, stream.last_temp)), cfg_.max_abs_temp_jump_C)

\* the engine evaluates the sample
Feed(s) ==
  LET r == evaluate(cfg_, Memory, s)
  IN  /\ SetMemory(r.mem)
      /\ out' = r.out
      /\ sig' = s
      /\ pre' = Memory
      /\ op' = "evaluate"
      /\ UNCHANGED <<cfg_, mw2, out2, turn, rise>>
      /\ UNCHANGED <<storeVars, serverVars, apiVars>>

\* a well-formed sample before a step, or after the recovery from one
StepBaseline(s) ==
  /\ stream.phase \in {"start", "baseline", "after"}
  /\ WellFormed(s)
  /\ Feed(s)
  /\ stream' = [stream EXCEPT !.phase = "baseline", !.was = stream.phase,
                              !.last_t = s.t_s, !.last_temp = s.temp_C,
                              !.anchor_t = s.t_s, !.rejected = 0]

\* the first sample after the temperature made a step larger than the
\* configured plausible-jump limit
StepJump(s) ==
  /\ stream.phase \in {"baseline", "after"}
  /\ DGt(s.t_s, stream.last_t)
  /\ DGt(fabs(DSub(s.temp_C, stream.last_temp)), cfg_.max_abs_temp_jump_C)
  /\ Feed(s)
  /\ LET late == DGt(DSub(s.t_s, stream.anchor_t), cfg_.max_dt_s)
     IN  stream' = [stream EXCEPT !.phase = IF late THEN "late" ELSE "step",
                                 !.was = stream.phase,
                                 !.last_t = s.t_s, !.last_temp = s.temp_C,
                                 !.level = s.temp_C,
                                 !.late_t = IF late THEN s.t_s ELSE @,
                                 !.rejected = IF late THEN 0 ELSE 1]

\* a later sample at the level the temperature stepped to
StepHold(s) ==
  /\ stream.phase \in {"step", "late"}
  /\ DGt(s.t_s, stream.last_t)
  /\ s.temp_C = stream.level
  /\ Feed(s)
  /\ LET since == IF stream.phase = "step" THEN stream.anchor_t
                  ELSE stream.late_t
         late == DGt(DSub(s.t_s, since), cfg_.max_dt_s)
     IN  stream' = [stream EXCEPT
                     !.phase = IF late THEN "late"
                               ELSE IF stream.phase = "step" THEN "step"
                               ELSE "after",
                     !.was = stream.phase,
                     !.last_t = s.t_s,
                     !.anchor_t = IF stream.phase = "late" /\ ~late
                                  THEN s.t_s ELSE @,
                     !.late_t = IF late THEN s.t_s ELSE @,
                     !.rejected = IF stream.phase = "step" /\ ~late
                                  THEN @ + 1 ELSE @]

NextStep ==
  \/ \E s \in StreamSignals : StepBaseline(s)
  \/ \E s \in StreamSignals : StepJump(s)
  \/ \E s \in StreamSignals : StepHold(s)

SpecStep == Init /\ [][NextStep]_vars

\* a well-formed sample of the stream
CleanSample(s) ==
  /\ stream.phase \in {"start", "clean", "corrupted"}
  /\ WellFormed(s)
  /\ Feed(s)
  /\ LET passed == FLAG_FAILSAFE_DEFAULT \notin evaluate(cfg_, Memory, s).out.flags
     IN  stream' = [stream EXCEPT
                     !.phase = IF stream.phase = "corrupted" THEN "corrupted"
                               ELSE "clean",
                     !.was = stream.phase,
                     !.last_t = s.t_s, !.last_temp = s.temp_C,
                     !.after = IF stream.phase = "corrupted" THEN @ + 1 ELSE @,
                     !.recovered = IF stream.phase = "corrupted"
                                   THEN @ \/ passed ELSE @]

\* one valid-flagged sample whose timestamp is wrong: earlier than the last
\* sample of the stream, or more than the maximum gap later
CorruptSample(s) ==
  /\ stream.phase = "clean"
  /\ s.temp_C = stream.last_temp
  /\ \/ DLt(s.t_s, stream.last_t)
     \/ DGt(DSub(s.t_s, stream.last_t), cfg_.max_dt_s)
  /\ Feed(s)
  /\ stream' = [stream EXCEPT !.phase = "corrupted", !.was = stream.phase,
                              !.late_t = s.t_s, !.after = 0,
                              !.recovered = FALSE]

NextCorrupt ==
  \/ \E s \in StreamSignals : CleanSample(s)
  \/ \E s \in StreamSignals : CorruptSample(s)

SpecCorrupt == Init /\ [][NextCorrupt]_vars

----------------------------------------------------------------------------
(* The shared state store used by one writer thread and two reader        *)
(* threads, as in test_api_state_thread_safety: reader1 asks for the      *)
(* current snapshot, reader2 for the history.  Each member function is a  *)
(* sequence of steps between taking and releasing mutex_; the engine is   *)
(* left alone.                                                            *)

\* update, line 37: the writer enters update and takes the lock
UpdateLock(u) ==
  /\ pc[Writer] = "idle"
  /\ now <= MaxUpdates
  /\ try_lock(mutex_)
  /\ mutex_' = Writer
  /\ call' = [name |-> "update", signals |-> u.signals, output |-> u.output,
              size |-> 0, timestamp |-> now,
              pre_current |-> current_, pre_history |-> history_]
  /\ pc' = [pc EXCEPT ![Writer] = "update_head"]
  /\ UNCHANGED <<current_, history_, max_history_size_, now, ret, log, resized>>
  /\ UNCHANGED <<engineVars, serverVars, apiVars>>

\* update, lines 39-43
UpdateWriteHead ==
  /\ pc[Writer] = "update_head"
  /\ current_' = write_head(current_, now, call.signals, call.output)
  /\ now' = now + 1
  /\ pc' = [pc EXCEPT ![Writer] = "update_tail"]
  /\ UNCHANGED <<mutex_, history_, max_history_size_, call, ret, log, resized>>
  /\ UNCHANGED <<engineVars, serverVars, apiVars>>

\* update, lines 44-50
UpdateWriteTail ==
  /\ pc[Writer] = "update_tail"
  /\ current_' = write_tail(current_, call.signals, call.output)
  /\ pc' = [pc EXCEPT ![Writer] = "update_push"]
  /\ UNCHANGED <<mutex_, history_, max_history_size_, now, call, ret, log,
                 resized>>
  /\ UNCHANGED <<engineVars, serverVars, apiVars>>

\* update, line 53
UpdatePush ==
  /\ pc[Writer] = "update_push"
  /\ history_' = push_back(history_, current_)
  /\ pc' = [pc EXCEPT ![Writer] = "update_trim"]
  /\ UNCHANGED <<mutex_, current_, max_history_size_, now, call, ret, log,
                 resized>>
  /\ UNCHANGED <<engineVars, serverVars, apiVars>>

\* update, lines 56-58: one round of the trim loop
UpdateTrim ==
  /\ pc[Writer] = "update_trim"
  /\ history_overflow(history_, max_history_size_)
  /\ history_' = pop_front(history_)
  /\ UNCHANGED <<mutex_, current_, max_history_size_, now, pc, call, ret, log,
                 resized>>
  /\ UNCHANGED <<engineVars, serverVars, apiVars>>

\* update, line 59: the loop ends, the lock is released, update returns
UpdateReturn ==
  /\ pc[Writer] = "update_trim"
  /\ ~history_overflow(history_, max_history_size_)
  /\ mutex_' = "free"
  /\ log' = Append(log, [signals |-> call.signals, output |-> call.output,
                         timestamp |-> call.timestamp])
  /\ pc' = [pc EXCEPT ![Writer] = "idle"]
  /\ UNCHANGED <<current_, history_, max_history_size_, now, call, ret, resized>>
  /\ UNCHANGED <<engineVars, serverVars, apiVars>>

\* setMaxHistorySize, line 83
SetMaxHistorySizeLock(size) ==
  /\ pc[Writer] = "idle"
  /\ try_lock(mutex_)
  /\ mutex_' = Writer
  /\ call' = [NoCall EXCEPT !.name = "setMaxHistorySize", !.size = size,
                            !.pre_current = current_,
                            !.pre_history = history_]
  /\ pc' = [pc EXCEPT ![Writer] = "setmax_assign"]
  /\ UNCHANGED <<current_, history_, max_history_size_, now, ret, log, resized>>
  /\ UNCHANGED <<engineVars, serverVars, apiVars>>

\* setMaxHistorySize, line 84
SetMaxHistorySizeAssign ==
  /\ pc[Writer] = "setmax_assign"
  /\ max_history_size_' = call.size
  /\ resized' = (resized \/ Len(log) > 0)
  /\ pc' = [pc EXCEPT ![Writer] = "setmax_trim"]
  /\ UNCHANGED <<mutex_, current_, history_, now, call, ret, log>>
  /\ UNCHANGED <<engineVars, serverVars, apiVars>>

\* setMaxHistorySize, lines 87-89: one round of the trim loop
SetMaxHistorySizeTrim ==
  /\ pc[Writer] = "setmax_trim"
  /\ history_overflow(history_, max_history_size_)
  /\ history_' = pop_front(history_)
  /\ UNCHANGED <<mutex_, current_, max_history_size_, now, pc, call, ret, log,
                 resized>>
  /\ UNCHANGED <<engineVars, serverVars, apiVars>>

\* setMaxHistorySize, line 90
SetMaxHistorySizeReturn ==
  /\ pc[Writer] = "setmax_trim"
  /\ ~history_overflow(history_, max_history_size_)
  /\ mutex_' = "free"
  /\ pc' = [pc EXCEPT ![Writer] = "idle"]
  /\ UNCHANGED <<current_, history_, max_history_size_, now, call, ret, log,
                 resized>>
  /\ UNCHANGED <<engineVars, serverVars, apiVars>>

\* a reader enters getCurrentSnapshot (line 62), getHistory(max_count)
\* (line 67) or handleHistory (line 343) and takes the lock
ReadLock(r, name, max_count) ==
  /\ pc[r] = "idle"
  /\ try_lock(mutex_)
  /\ mutex_' = r
  /\ ret' = [ret EXCEPT ![r] = [NoReturn EXCEPT !.name = name,
                                                !.max_count = max_count]]
  /\ pc' = [pc EXCEPT ![r] = "copy"]
  /\ UNCHANGED <<current_, history_, max_history_size_, now, call, log, resized>>
  /\ UNCHANGED <<engineVars, serverVars, apiVars>>

\* the reader copies what it asked for, releases the lock and returns
ReadReturn(r) ==
  /\ pc[r] = "copy"
  /\ ret' = [ret EXCEPT ![r].done = TRUE,
                        ![r].updates = Len(log),
                        ![r].value =
                          CASE ret[r].name = "getCurrentSnapshot" -> current_
                            [] ret[r].name = "getHistory" ->
                                 getHistory(history_, ret[r].max_count)
                            [] ret[r].name = "handleHistory" ->
                                 handleHistory(history_)]
  /\ mutex_' = "free"
  /\ pc' = [pc EXCEPT ![r] = "idle"]
  /\ UNCHANGED <<current_, history_, max_history_size_, now, call, log, resized>>
  /\ UNCHANGED <<engineVars, serverVars, apiVars>>

NextStore ==
  \/ \E u \in StoreUpdates : UpdateLock(u)
  \/ UpdateWriteHead
  \/ UpdateWriteTail
  \/ UpdatePush
  \/ UpdateTrim
  \/ UpdateReturn
  \/ \E size \in HistorySizes : SetMaxHistorySizeLock(size)
  \/ SetMaxHistorySizeAssign
  \/ SetMaxHistorySizeTrim
  \/ SetMaxHistorySizeReturn
  \/ ReadLock(Reader1, "getCurrentSnapshot", 0)
  \/ \E n \in HistoryCounts : ReadLock(Reader2, "getHistory", n)
  \/ ReadLock(Reader2, "handleHistory", ApiHistoryCount)
  \/ \E r \in Readers : ReadReturn(r)

\* the store does not read the engine's Config: it is the default one
InitStore == Init /\ cfg_ = PhaseReadinessConfig

SpecStore == InitStore /\ [][NextStore]_vars

----------------------------------------------------------------------------
(* The REST API server's lifecycle: the owner thread calls start(), stop() *)
(* and isRunning(), one statement at a time, while the accept-loop threads *)
(* it has spawned run serverLoop.  Engine and store are left alone.        *)

\* the descriptor the next successful socket() returns
NextFd == CHOOSE t \in LoopThreads :
            /\ loop_pc[t] = "none"
            /\ \A u \in LoopThreads : loop_pc[u] = "none" => t <= u

\* start, lines 109-110: running_ is set, start returns false
StartRefused ==
  /\ main_pc = "idle" /\ ~terminated
  /\ running_
  /\ result' = [name |-> "start", value |-> FALSE]
  /\ UNCHANGED <<running_, should_stop_, server_socket_, server_thread_,
                 open_fds, loop_pc, main_pc, phase, terminated>>
  /\ UNCHANGED <<engineVars, storeVars, apiVars>>

\* start, line 109: running_ is not set, start goes on
StartEnter ==
  /\ main_pc = "idle" /\ ~terminated
  /\ ~running_
  /\ \E t \in LoopThreads : loop_pc[t] = "none"
  /\ main_pc' = "start_listen"
  /\ UNCHANGED <<running_, should_stop_, server_socket_, server_thread_,
                 open_fds, loop_pc, result, phase, terminated>>
  /\ UNCHANGED <<engineVars, storeVars, apiVars>>

\* start, lines 114-160: socket, setsockopt, inet_pton, bind or listen
\* fails; what was opened is closed, server_socket_ is -1, start returns
\* false
StartFail ==
  /\ main_pc = "start_listen"
  /\ server_socket_' = -1
  /\ result' = [name |-> "start", value |-> FALSE]
  /\ main_pc' = "idle"
  /\ UNCHANGED <<running_, should_stop_, server_thread_, open_fds, loop_pc,
                 phase, terminated>>
  /\ UNCHANGED <<engineVars, storeVars, apiVars>>

\* start, lines 114-160: the socket is created, bound and listening
StartListen ==
  /\ main_pc = "start_listen"
  /\ server_socket_' = NextFd
  /\ open_fds' = open_fds \cup {NextFd}
  /\ main_pc' = "start_flag"
  /\ UNCHANGED <<running_, should_stop_, server_thread_, loop_pc, result,
                 phase, terminated>>
  /\ UNCHANGED <<engineVars, storeVars, apiVars>>

\* start, line 163
StartFlag ==
  /\ main_pc = "start_flag"
  /\ should_stop_' = FALSE
  /\ main_pc' = "start_thread"
  /\ UNCHANGED <<running_, server_socket_, server_thread_, open_fds, loop_pc,
                 result, phase, terminated>>
  /\ UNCHANGED <<engineVars, storeVars, apiVars>>

\* start, line 164, right-hand side: the std::thread temporary is
\* constructed and the new thread starts to run serverLoop
StartSpawn ==
  /\ main_pc = "start_thread"
  /\ loop_pc' = [loop_pc EXCEPT ![server_socket_] = "spawned"]
  /\ main_pc' = "start_assign"
  /\ UNCHANGED <<running_, should_stop_, server_socket_, server_thread_,
                 open_fds, result, phase, terminated>>
  /\ UNCHANGED <<engineVars, storeVars, apiVars>>

\* start, lines 164-166: the temporary is move-assigned to server_thread_
\* and start returns true; assigning to a joinable std::thread calls
\* std::terminate
StartAssign ==
  /\ main_pc = "start_assign" /\ ~terminated
  /\ IF server_thread_ # 0
     THEN /\ terminated' = TRUE
          /\ UNCHANGED <<server_thread_, result, phase, main_pc>>
     ELSE /\ server_thread_' = server_socket_
          /\ result' = [name |-> "start", value |-> TRUE]
          /\ phase' = "started"
          /\ main_pc' = "idle"
          /\ UNCHANGED terminated
  /\ UNCHANGED <<running_, should_stop_, server_socket_, open_fds, loop_pc>>
  /\ UNCHANGED <<engineVars, storeVars, apiVars>>

\* stop, lines 170-172: running_ is not set, stop returns at once
StopNotRunning ==
  /\ main_pc = "idle" /\ ~terminated
  /\ ~running_
  /\ result' = [name |-> "stop", value |-> running_]
  /\ phase' = IF phase = "started" THEN "stopping" ELSE phase
  /\ UNCHANGED <<running_, should_stop_, server_socket_, server_thread_,
                 open_fds, loop_pc, main_pc, terminated>>
  /\ UNCHANGED <<engineVars, storeVars, apiVars>>

\* stop, line 170: running_ is set, stop goes on
StopEnter ==
  /\ main_pc = "idle" /\ ~terminated
  /\ running_
  /\ phase' = IF phase = "started" THEN "stopping" ELSE phase
  /\ main_pc' = "stop_flag"
  /\ UNCHANGED <<running_, should_stop_, server_socket_, server_thread_,
                 open_fds, loop_pc, result, terminated>>
  /\ UNCHANGED <<engineVars, storeVars, apiVars>>

\* stop, line 174
StopFlag ==
  /\ main_pc = "stop_flag"
  /\ should_stop_' = TRUE
  /\ main_pc' = "stop_join"
  /\ waits' = 0
  /\ UNCHANGED <<client, connections, closes, served>>
  /\ UNCHANGED <<running_, server_socket_, server_thread_, open_fds, loop_pc,
                 result, phase, terminated>>
  /\ UNCHANGED <<engineVars, storeVars>>

\* stop, lines 176-178: join returns when the thread has finished
StopJoin ==
  /\ main_pc = "stop_join"
  /\ server_thread_ # 0 => loop_pc[server_thread_] = "done"
  /\ server_thread_' = 0
  /\ main_pc' = "stop_close"
  /\ UNCHANGED <<running_, should_stop_, server_socket_, open_fds, loop_pc,
                 result, phase, terminated>>
  /\ UNCHANGED <<engineVars, storeVars, apiVars>>

\* stop, lines 180-183
StopClose ==
  /\ main_pc = "stop_close"
  /\ open_fds' = open_fds \ {server_socket_}
  /\ server_socket_' = -1
  /\ main_pc' = "stop_store"
  /\ UNCHANGED <<running_, should_stop_, server_thread_, loop_pc, result,
                 phase, terminated>>
  /\ UNCHANGED <<engineVars, storeVars, apiVars>>

\* stop, lines 185-186
StopReturn ==
  /\ main_pc = "stop_store"
  /\ running_' = FALSE
  /\ result' = [name |-> "stop", value |-> FALSE]
  /\ phase' = IF phase = "stopping" THEN "stopped" ELSE phase
  /\ main_pc' = "idle"
  /\ UNCHANGED <<should_stop_, server_socket_, server_thread_, open_fds,
                 loop_pc, terminated>>
  /\ UNCHANGED <<engineVars, storeVars, apiVars>>

\* isRunning, lines 188-190
IsRunning ==
  /\ main_pc = "idle" /\ ~terminated
  /\ result' = [name |-> "isRunning", value |-> running_]
  /\ UNCHANGED <<running_, should_stop_, server_socket_, server_thread_,
                 open_fds, loop_pc, main_pc, phase, terminated>>
  /\ UNCHANGED <<engineVars, storeVars, apiVars>>

\* serverLoop, line 193
LoopEnter(t) ==
  /\ loop_pc[t] = "spawned" /\ ~terminated
  /\ running_' = TRUE
  /\ loop_pc' = [loop_pc EXCEPT ![t] = "check"]
  /\ UNCHANGED <<should_stop_, server_socket_, server_thread_, open_fds,
                 main_pc, result, phase, terminated>>
  /\ UNCHANGED <<engineVars, storeVars, apiVars>>

\* a mutant of LoopCheck: the loop goes on whatever should_stop_ holds
LoopCheck_ignores_flag(t) ==
  /\ loop_pc[t] = "check" /\ ~terminated
  /\ loop_pc' = [loop_pc EXCEPT ![t] = "accept"]
  /\ UNCHANGED <<running_, should_stop_, server_socket_, server_thread_,
                 open_fds, main_pc, result, phase, terminated>>
  /\ UNCHANGED <<engineVars, storeVars, apiVars>>

\* serverLoop, line 195
LoopCheck(t) ==
  /\ loop_pc[t] = "check" /\ ~terminated
  /\ loop_pc' = [loop_pc EXCEPT ![t] = IF should_stop_ THEN "exit" ELSE "accept"]
  /\ UNCHANGED <<running_, should_stop_, server_socket_, server_thread_,
                 open_fds, main_pc, result, phase, terminated>>
  /\ UNCHANGED <<engineVars, storeVars, apiVars>>

\* serverLoop, lines 199-208: accept times out (continue), fails (break)
\* or returns a client
LoopAccept(t, outcome) ==
  /\ loop_pc[t] = "accept" /\ ~terminated
  /\ outcome = "client" => connections < MaxClients
  /\ loop_pc' = [loop_pc EXCEPT ![t] = CASE outcome = "timeout" -> "check"
                                         [] outcome = "error" -> "exit"
                                         [] outcome = "client" -> "handle"]
  /\ IF outcome = "client"
     THEN /\ connections' = connections + 1
          /\ client' = [client EXCEPT ![t] =
                          [NoClient EXCEPT !.id = connections + 1]]
     ELSE UNCHANGED <<connections, client>>
  /\ waits' = IF should_stop_ THEN waits + 1 ELSE waits
  /\ UNCHANGED <<closes, served>>
  /\ UNCHANGED <<running_, should_stop_, server_socket_, server_thread_,
                 open_fds, main_pc, result, phase, terminated>>
  /\ UNCHANGED <<engineVars, storeVars>>

\* a mutant of ClientRecv: when recv delivers nothing the loop goes on
\* without closing the connection
ClientRecv_return_skips_close(t, got, request) ==
  /\ loop_pc[t] = "handle" /\ ~terminated
  /\ IF got
     THEN /\ client' = [client EXCEPT ![t].read = TRUE,
                                      ![t].request = request]
          /\ loop_pc' = [loop_pc EXCEPT ![t] = "dispatch"]
     ELSE /\ client' = [client EXCEPT ![t] = NoClient]
          /\ loop_pc' = [loop_pc EXCEPT ![t] = "check"]
  /\ UNCHANGED <<connections, closes, served, waits>>
  /\ UNCHANGED <<running_, should_stop_, server_socket_, server_thread_,
                 open_fds, main_pc, result, phase, terminated>>
  /\ UNCHANGED <<engineVars, storeVars>>

\* handleClient, lines 219-227: recv delivers the request, or nothing, and
\* then handleClient returns without a response
ClientRecv(t, got, request) ==
  /\ loop_pc[t] = "handle" /\ ~terminated
  /\ IF got
     THEN /\ client' = [client EXCEPT ![t].read = TRUE,
                                      ![t].request = request]
          /\ loop_pc' = [loop_pc EXCEPT ![t] = "dispatch"]
     ELSE /\ UNCHANGED client
          /\ loop_pc' = [loop_pc EXCEPT ![t] = "close"]
  /\ UNCHANGED <<connections, closes, served, waits>>
  /\ UNCHANGED <<running_, should_stop_, server_socket_, server_thread_,
                 open_fds, main_pc, result, phase, terminated>>
  /\ UNCHANGED <<engineVars, storeVars>>

\* handleClient, lines 229-275: the request is parsed; 400 when that fails,
\* 405 for another method than GET; else the path is routed inside the try
\* block, where a handler that reads the store goes on to take its lock
\* and any std::exception thrown gives a 500
ClientDispatch(t, throws) ==
  /\ loop_pc[t] = "dispatch" /\ ~terminated
  /\ LET parsed == parsed_requests[client[t].request]
         answer ==
           IF ~parsed.ok
           THEN makeHttpResponse(400, "Bad Request",
                  makeJsonError(400, <<"Invalid HTTP request">>),
                  "application/json")
           ELSE IF parsed.method # <<"GET">>
           THEN makeHttpResponse(405, "Method Not Allowed",
                  makeJsonError(405, <<"Only GET requests are allowed">>),
                  "application/json")
           ELSE IF throws
           THEN makeHttpResponse(500, "Internal Server Error",
                  makeJsonError(500, <<"Internal error: ", "e.what()">>),
                  "application/json")
           ELSE LET r == route(parsed.path, current_, history_)
                IN  makeHttpResponse(r.status, r.text, r.body,
                                     "application/json")
         locks == parsed.ok /\ parsed.method = <<"GET">> /\ ~throws
                    /\ parsed.path \in StorePaths
     IN  IF locks
         THEN /\ client' = [client EXCEPT ![t].parsed = parsed]
              /\ loop_pc' = [loop_pc EXCEPT ![t] = "read_lock"]
         ELSE /\ client' = [client EXCEPT
                              ![t].parsed = parsed,
                              ![t].status = answer.status,
                              ![t].response = answer,
                              ![t].threw = parsed.ok
                                             /\ parsed.method = <<"GET">>
                                             /\ throws]
              /\ loop_pc' = [loop_pc EXCEPT ![t] = "send"]
  /\ UNCHANGED <<connections, closes, served, waits>>
  /\ UNCHANGED <<running_, should_stop_, server_socket_, server_thread_,
                 open_fds, main_pc, result, phase, terminated>>
  /\ UNCHANGED <<engineVars, storeVars>>

\* a mutant of ClientReadLock: reading takes the history out of the store
ClientReadLock_moves_history(t) ==
  /\ loop_pc[t] = "read_lock" /\ ~terminated
  /\ try_lock(mutex_)
  /\ mutex_' = Handler
  /\ history_' = <<>>
  /\ loop_pc' = [loop_pc EXCEPT ![t] = "read_copy"]
  /\ UNCHANGED apiVars
  /\ UNCHANGED <<running_, should_stop_, server_socket_, server_thread_,
                 open_fds, main_pc, result, phase, terminated>>
  /\ UNCHANGED engineVars
  /\ UNCHANGED <<current_, max_history_size_, now, pc, call, ret, log,
                 resized>>

\* getCurrentSnapshot / getHistory, the std::lock_guard (lines 61, 67)
ClientReadLock(t) ==
  /\ loop_pc[t] = "read_lock" /\ ~terminated
  /\ try_lock(mutex_)
  /\ mutex_' = Handler
  /\ loop_pc' = [loop_pc EXCEPT ![t] = "read_copy"]
  /\ UNCHANGED apiVars
  /\ UNCHANGED <<running_, should_stop_, server_socket_, server_thread_,
                 open_fds, main_pc, result, phase, terminated>>
  /\ UNCHANGED engineVars
  /\ UNCHANGED <<current_, history_, max_history_size_, now, pc, call, ret,
                 log, resized>>

\* a mutant of ClientReadCopy: the lock is kept while the response is sent
ClientReadCopy_keeps_lock(t, throws) ==
  /\ loop_pc[t] = "read_copy" /\ ~terminated
  /\ mutex_' = mutex_
  /\ LET r == route(client[t].parsed.path, current_, history_)
         answer ==
           IF throws
           THEN makeHttpResponse(500, "Internal Server Error",
                  makeJsonError(500, <<"Internal error: ", "e.what()">>),
                  "application/json")
           ELSE makeHttpResponse(r.status, r.text, r.body, "application/json")
     IN  client' = [client EXCEPT ![t].status = answer.status,
                                  ![t].response = answer,
                                  ![t].threw = throws,
                                  ![t].store = <<current_, history_>>]
  /\ loop_pc' = [loop_pc EXCEPT ![t] = "send"]
  /\ UNCHANGED <<connections, closes, served, waits>>
  /\ UNCHANGED <<running_, should_stop_, server_socket_, server_thread_,
                 open_fds, main_pc, result, phase, terminated>>
  /\ UNCHANGED engineVars
  /\ UNCHANGED <<current_, history_, max_history_size_, now, pc, call, ret,
                 log, resized>>

\* the handler copies what it reads under the lock, releases it and builds
\* its document; a std::exception thrown on the way gives a 500
ClientReadCopy(t, throws) ==
  /\ loop_pc[t] = "read_copy" /\ ~terminated
  /\ mutex_' = "free"
  /\ LET r == route(client[t].parsed.path, current_, history_)
         answer ==
           IF throws
           THEN makeHttpResponse(500, "Internal Server Error",
                  makeJsonError(500, <<"Internal error: ", "e.what()">>),
                  "application/json")
           ELSE makeHttpResponse(r.status, r.text, r.body, "application/json")
     IN  client' = [client EXCEPT ![t].status = answer.status,
                                  ![t].response = answer,
                                  ![t].threw = throws,
                                  ![t].store = <<current_, history_>>]
  /\ loop_pc' = [loop_pc EXCEPT ![t] = "send"]
  /\ UNCHANGED <<connections, closes, served, waits>>
  /\ UNCHANGED <<running_, should_stop_, server_socket_, server_thread_,
                 open_fds, main_pc, result, phase, terminated>>
  /\ UNCHANGED engineVars
  /\ UNCHANGED <<current_, history_, max_history_size_, now, pc, call, ret,
                 log, resized>>

\* handleClient, the send of lines 235, 244 and 278
ClientSend(t) ==
  /\ loop_pc[t] = "send" /\ ~terminated
  /\ loop_pc' = [loop_pc EXCEPT ![t] = "close"]
  /\ UNCHANGED apiVars
  /\ UNCHANGED <<running_, should_stop_, server_socket_, server_thread_,
                 open_fds, main_pc, result, phase, terminated>>
  /\ UNCHANGED <<engineVars, storeVars>>

\* a mutant of ClientClose: after a failed handler the loop is left
ClientClose_failure_ends_loop(t) ==
  /\ loop_pc[t] = "close" /\ ~terminated
  /\ closes' = [closes EXCEPT ![client[t].id] = @ + 1]
  /\ served' = Append(served, client[t])
  /\ client' = [client EXCEPT ![t] = NoClient]
  /\ loop_pc' = [loop_pc EXCEPT ![t] = IF client[t].threw THEN "exit"
                                       ELSE "check"]
  /\ UNCHANGED <<connections, waits>>
  /\ UNCHANGED <<running_, should_stop_, server_socket_, server_thread_,
                 open_fds, main_pc, result, phase, terminated>>
  /\ UNCHANGED <<engineVars, storeVars>>

\* serverLoop, line 212: close(client_socket)
ClientClose(t) ==
  /\ loop_pc[t] = "close" /\ ~terminated
  /\ closes' = [closes EXCEPT ![client[t].id] = @ + 1]
  /\ served' = Append(served, client[t])
  /\ client' = [client EXCEPT ![t] = NoClient]
  /\ loop_pc' = [loop_pc EXCEPT ![t] = "check"]
  /\ UNCHANGED <<connections, waits>>
  /\ UNCHANGED <<running_, should_stop_, server_socket_, server_thread_,
                 open_fds, main_pc, result, phase, terminated>>
  /\ UNCHANGED <<engineVars, storeVars>>

\* serverLoop, lines 215-216
LoopExit(t) ==
  /\ loop_pc[t] = "exit" /\ ~terminated
  /\ running_' = FALSE
  /\ loop_pc' = [loop_pc EXCEPT ![t] = "done"]
  /\ UNCHANGED <<should_stop_, server_socket_, server_thread_, open_fds,
                 main_pc, result, phase, terminated>>
  /\ UNCHANGED <<engineVars, storeVars, apiVars>>

NextServer ==
  \/ StartRefused
  \/ StartEnter
  \/ StartFail
  \/ StartListen
  \/ StartFlag
  \/ StartSpawn
  \/ StartAssign
  \/ StopNotRunning
  \/ StopEnter
  \/ StopFlag
  \/ StopJoin
  \/ StopClose
  \/ StopReturn
  \/ IsRunning
  \/ \E t \in LoopThreads : LoopEnter(t)
  \/ \E t \in LoopThreads : LoopCheck(t)
  \/ \E t \in LoopThreads : \E outcome \in AcceptOutcomes : LoopAccept(t, outcome)
  \/ \E t \in LoopThreads : \E got \in BOOLEAN :
       \E request \in LifecycleRequests : ClientRecv(t, got, request)
  \/ \E t \in LoopThreads : \E throws \in BOOLEAN : ClientDispatch(t, throws)
  \/ \E t \in LoopThreads : ClientReadLock(t)
  \/ \E t \in LoopThreads : \E throws \in BOOLEAN : ClientReadCopy(t, throws)
  \/ \E t \in LoopThreads : ClientSend(t)
  \/ \E t \in LoopThreads : ClientClose(t)
  \/ \E t \in LoopThreads : LoopExit(t)

SpecServer == InitStore /\ [][NextServer]_vars

\* the steps of accept-loop thread t while requests are taken from a set
LoopStep(t, requests) ==
  \/ LoopEnter(t)
  \/ LoopCheck(t)
  \/ \E outcome \in AcceptOutcomes : LoopAccept(t, outcome)
  \/ \E got \in BOOLEAN : \E request \in requests : ClientRecv(t, got, request)
  \/ \E throws \in BOOLEAN : ClientDispatch(t, throws)
  \/ ClientReadLock(t)
  \/ \E throws \in BOOLEAN : ClientReadCopy(t, throws)
  \/ ClientSend(t)
  \/ ClientClose(t)
  \/ LoopExit(t)

\* The documented integration: the application starts the server once,
\* its readiness loop updates the store, clients send requests, and the
\* server is stopped at shutdown. The history bound stays at its default,
\* which the history does not reach, so that the trim loop of update makes
\* no round.
NextApi ==
  \/ result.name = "none" /\ StartEnter
  \/ StartListen
  \/ StartFlag
  \/ StartSpawn
  \/ StartAssign
  \/ phase = "started" /\ StopNotRunning
  \/ phase = "started" /\ StopEnter
  \/ StopFlag
  \/ StopJoin
  \/ StopClose
  \/ StopReturn
  \/ \E t \in LoopThreads : LoopStep(t, Requests)
  \/ now <= MaxApiUpdates /\ \E u \in StoreUpdates : UpdateLock(u)
  \/ UpdateWriteHead
  \/ UpdateWriteTail
  \/ UpdatePush
  \/ UpdateReturn

SpecApi == InitStore /\ [][NextApi]_vars

\* The store shared by the producer and the server: the application starts
\* the server, its readiness loop updates the store and sets the history
\* bound, another of its threads reads the current snapshot, and clients
\* send requests.
NextShared ==
  \/ result.name = "none" /\ StartEnter
  \/ StartListen
  \/ StartFlag
  \/ StartSpawn
  \/ StartAssign
  \/ \E t \in LoopThreads : LoopStep(t, LifecycleRequests)
  \/ now <= MaxApiUpdates /\ \E u \in StoreUpdates : UpdateLock(u)
  \/ UpdateWriteHead
  \/ UpdateWriteTail
  \/ UpdatePush
  \/ UpdateTrim
  \/ UpdateReturn
  \/ \E size \in HistorySizes : SetMaxHistorySizeLock(size)
  \/ SetMaxHistorySizeAssign
  \/ SetMaxHistorySizeTrim
  \/ SetMaxHistorySizeReturn
  \/ ReadLock(Reader1, "getCurrentSnapshot", 0)
  \/ ReadReturn(Reader1)

SpecShared == InitStore /\ [][NextShared]_vars

\* the steps a thread takes while it holds the store's lock
HolderStep ==
  \/ UpdateWriteHead
  \/ UpdateWriteTail
  \/ UpdatePush
  \/ UpdateTrim
  \/ UpdateReturn
  \/ SetMaxHistorySizeAssign
  \/ SetMaxHistorySizeTrim
  \/ SetMaxHistorySizeReturn
  \/ ReadReturn(Reader1)
  \/ \E t \in LoopThreads : \E throws \in BOOLEAN : ClientReadCopy(t, throws)

\* A thread inside a critical section is scheduled; nothing is assumed of
\* the socket calls (accept, recv, send, close), which may last for ever.
SpecSharedFair == InitStore /\ [][NextShared]_vars /\ WF_vars(HolderStep)

\* the steps of stop() past its running_ test
StopStep == StopFlag \/ StopJoin \/ StopClose \/ StopReturn

\* The scheduler lets every thread that can take a step take one: accept
\* returns (SO_RCVTIMEO bounds the wait), recv returns, the store's lock is
\* free when no writer runs, and the owner goes on inside stop().
SpecServerFair ==
  /\ InitStore
  /\ [][NextServer]_vars
  /\ \A t \in LoopThreads : WF_vars(LoopStep(t, LifecycleRequests))
  /\ WF_vars(StopStep)

----------------------------------------------------------------------------
(* Vocabulary of the properties *)

Evaluated == op = "evaluate"

\* the sample passes Step 1
ValidInput(s) == s.valid /\ is_finite(s.t_s) /\ is_finite(s.temp_C)

\* dt of the last call
dtLast == DSub(sig.t_s, pre.prev_t_s_)

\* |temp - prev_temp| of the last call
jumpLast == fabs(DSub(sig.temp_C, pre.prev_temp_C_))

\* the last call was made with a previous sample held and a valid sample
\* whose dt lies in (0, max gap]
PassedTemporal ==
  /\ Evaluated
  /\ pre.has_prev_
  /\ ValidInput(sig)
  /\ DGt(dtLast, Zero)
  /\ DLe(dtLast, cfg_.max_dt_s)

\* the verdict is the fail-safe verdict with the given cause
FailSafeWith(o, cause) ==
  /\ o.readiness = Zero
  /\ o.gate = BLOCK
  /\ o.stability_score = Zero
  /\ FLAG_FAILSAFE_DEFAULT \in o.flags
  /\ cause \in o.flags

\* the verdict is a well-formed PhaseReadinessOutput
IsVerdict(o) ==
  /\ o.gate \in Gate
  /\ is_finite(o.readiness)
  /\ DGe(o.readiness, Zero)
  /\ DLe(o.readiness, One)
  /\ o.flags \subseteq {FLAG_INPUT_INVALID, FLAG_STALE_OR_NONMONO,
                        FLAG_TEMP_OUT_OF_RANGE, FLAG_GRADIENT_TOO_HIGH,
                        FLAG_PERSISTENT_HEATING, FLAG_PERSISTENT_COOLING,
                        FLAG_HYSTERESIS_HIGH, FLAG_COHERENCE_LOW,
                        FLAG_FAILSAFE_DEFAULT}

----------------------------------------------------------------------------
(* Properties *)

\* C1: evaluate always returns a verdict, and every rejection (invalid
\* input, no previous sample, dt <= 0, dt > max gap, implausible jump)
\* returns readiness 0, gate BLOCK, stability 0, FAILSAFE_DEFAULT and the
\* cause flag (INPUT_INVALID or STALE_OR_NONMONO).
C1_TotalFailSafe ==
  Evaluated =>
    /\ IsVerdict(out)
    /\ (~ValidInput(sig) => FailSafeWith(out, FLAG_INPUT_INVALID))
    /\ (ValidInput(sig) /\ ~pre.has_prev_
          => FailSafeWith(out, FLAG_STALE_OR_NONMONO))
    /\ (ValidInput(sig) /\ pre.has_prev_ /\ DLe(dtLast, Zero)
          => FailSafeWith(out, FLAG_STALE_OR_NONMONO))
    /\ (ValidInput(sig) /\ pre.has_prev_ /\ DGt(dtLast, cfg_.max_dt_s)
          => FailSafeWith(out, FLAG_STALE_OR_NONMONO))
    /\ (PassedTemporal /\ glitch(cfg_, pre, sig)
          => FailSafeWith(out, FLAG_INPUT_INVALID))

\* C1 witness: a sample that passed input and temporal validation was
\* rejected by the glitch guard
C1_Witness ==
  /\ PassedTemporal
  /\ glitch(cfg_, pre, sig)
  /\ FLAG_FAILSAFE_DEFAULT \in out.flags

\* C2: in every verdict, a critical flag (TEMP_OUT_OF_RANGE,
\* GRADIENT_TOO_HIGH, HYSTERESIS_HIGH) forces gate = BLOCK whatever the
\* readiness maps to.
C2_CriticalOverride ==
  (\/ FLAG_TEMP_OUT_OF_RANGE \in out.flags
   \/ FLAG_GRADIENT_TOO_HIGH \in out.flags
   \/ FLAG_HYSTERESIS_HIGH \in out.flags) => out.gate = BLOCK

\* C2 witness: a verdict with a critical flag whose readiness alone would
\* map to CAUTION
C2_Witness ==
  /\ Evaluated
  /\ FLAG_TEMP_OUT_OF_RANGE \in out.flags
  /\ gate_from_readiness(out.readiness) = CAUTION
  /\ out.gate = BLOCK

\* C3 (as claimed): with a previous sample held, a valid sample with
\* 0 < dt <= max gap whose temperature is outside the band gets
\* TEMP_OUT_OF_RANGE and gate BLOCK.
C3_OutOfRangeBlocks ==
  (/\ PassedTemporal
   /\ (DLt(sig.temp_C, cfg_.temp_min_C) \/ DGt(sig.temp_C, cfg_.temp_max_C)))
  => (FLAG_TEMP_OUT_OF_RANGE \in out.flags /\ out.gate = BLOCK)

\* C4 (as claimed): with a previous sample held, a valid sample with
\* 0 < dt <= max gap whose |temp - prev_temp| / dt exceeds the maximum
\* derivative gets GRADIENT_TOO_HIGH and gate BLOCK.
C4_GradientBlocks ==
  (/\ PassedTemporal
   /\ DGt(DDiv(jumpLast, dtLast), cfg_.max_abs_dTdt_C_per_s))
  => (FLAG_GRADIENT_TOO_HIGH \in out.flags /\ out.gate = BLOCK)

\* C5 (as claimed): a sample that passes input and temporal validation is
\* rejected with the INPUT_INVALID fail-safe exactly when |temp - prev_temp|
\* exceeds the max_abs_temp_jump_C of the engine's Config.
C5_GlitchGuardUsesConfig ==
  PassedTemporal =>
    (FailSafeWith(out, FLAG_INPUT_INVALID)
       <=> DGt(jumpLast, cfg_.max_abs_temp_jump_C))

\* C6: on an engine without a previous sample, a valid sample gets gate
\* BLOCK, readiness 0, STALE_OR_NONMONO and FAILSAFE_DEFAULT, becomes the
\* previous sample, and the trend and the persistence timer stay zero.
C6_BootstrapFailSafe ==
  (Evaluated /\ ~pre.has_prev_ /\ ValidInput(sig)) =>
    /\ out.gate = BLOCK
    /\ out.readiness = Zero
    /\ FLAG_STALE_OR_NONMONO \in out.flags
    /\ FLAG_FAILSAFE_DEFAULT \in out.flags
    /\ has_prev_
    /\ prev_t_s_ = sig.t_s
    /\ prev_temp_C_ = sig.temp_C
    /\ trend_dTdt_ = Zero
    /\ trend_age_s_ = Zero

\* C6 witness: a valid first sample was evaluated
C6_Witness ==
  /\ Evaluated
  /\ ~pre.has_prev_
  /\ ValidInput(sig)
  /\ has_prev_

\* C7: with a previous sample held, a valid sample with dt <= 0 gets gate
\* BLOCK with STALE_OR_NONMONO and FAILSAFE_DEFAULT and leaves every field
\* of the engine memory unchanged.
C7_MonotonicTime ==
  (Evaluated /\ pre.has_prev_ /\ ValidInput(sig) /\ DLe(dtLast, Zero)) =>
    /\ out.gate = BLOCK
    /\ FLAG_STALE_OR_NONMONO \in out.flags
    /\ FLAG_FAILSAFE_DEFAULT \in out.flags
    /\ Memory = pre

\* C7 witness: time stood still or went backward on an engine whose trend
\* has already moved
C7_Witness ==
  /\ Evaluated
  /\ pre.has_prev_
  /\ ValidInput(sig)
  /\ DLe(dtLast, Zero)
  /\ pre.trend_dTdt_ # Zero
  /\ Memory = pre

\* C8 (as claimed): with a previous sample held, a valid sample with
\* 0 < dt <= max gap, temperature inside the band, jump within the Config's
\* plausible-jump limit, |dTdt| within the derivative limit, persistence
\* timer below the required duration and no hysteresis/coherence index gets
\* readiness 1.0, gate ALLOW and no flag.
C8_StablePathAllows ==
  (/\ PassedTemporal
   /\ DGe(sig.temp_C, cfg_.temp_min_C)
   /\ DLe(sig.temp_C, cfg_.temp_max_C)
   /\ DLe(jumpLast, cfg_.max_abs_temp_jump_C)
   /\ DLe(DDiv(jumpLast, dtLast), cfg_.max_abs_dTdt_C_per_s)
   /\ DLt(trend_age_s_, cfg_.persistence_s)
   /\ ~is_finite(sig.hysteresis_index)
   /\ ~is_finite(sig.coherence_index))
  => (out.readiness = One /\ out.gate = ALLOW /\ out.flags = FLAG_NONE)

\* C9: reset() leaves the engine memory of a newly constructed engine (no
\* previous sample, zero trend, zero persistence timer) and does not change
\* the Config; the first valid sample after it gets the bootstrap fail-safe.
C9_ResetEquivalence ==
  [][/\ (op' = "reset" => (Memory' = InitMemory /\ cfg_' = cfg_))
     /\ ((op = "reset" /\ op' = "evaluate" /\ ValidInput(sig'))
           => (/\ FailSafeWith(out', FLAG_STALE_OR_NONMONO)
               /\ Memory' = store_prev(InitMemory, sig')))]_vars

\* C9 witness: reset() was called on an engine that held a previous sample,
\* a non-zero trend and a non-zero persistence timer
C9_Witness ==
  /\ op = "reset"
  /\ pre.has_prev_
  /\ pre.trend_dTdt_ # Zero
  /\ pre.trend_age_s_ # Zero
  /\ ~has_prev_

Accepted == Evaluated /\ FLAG_FAILSAFE_DEFAULT \notin out.flags

\* C11: an absent (non-finite) hysteresis index never gets HYSTERESIS_HIGH,
\* an absent coherence index never gets COHERENCE_LOW; in a non-fail-safe
\* verdict HYSTERESIS_HIGH is set exactly when the index is present and >=
\* its threshold, COHERENCE_LOW exactly when present and < its threshold.
C11_OptionalIndices ==
  Evaluated =>
    /\ (~is_finite(sig.hysteresis_index) => FLAG_HYSTERESIS_HIGH \notin out.flags)
    /\ (~is_finite(sig.coherence_index) => FLAG_COHERENCE_LOW \notin out.flags)
    /\ (Accepted =>
          /\ (FLAG_HYSTERESIS_HIGH \in out.flags
                <=> (/\ is_finite(sig.hysteresis_index)
                     /\ DGe(sig.hysteresis_index, cfg_.hysteresis_block_threshold)))
          /\ (FLAG_COHERENCE_LOW \in out.flags
                <=> (/\ is_finite(sig.coherence_index)
                     /\ DLt(sig.coherence_index, cfg_.coherence_allow_threshold))))

\* C11 witness: an accepted sample whose indices are both non-finite, the
\* hysteresis index being above every threshold (infinite)
C11_Witness ==
  /\ Accepted
  /\ sig.hysteresis_index = Inf
  /\ sig.coherence_index = Inf
  /\ out.flags = FLAG_NONE

\* C12: a non-fail-safe verdict for a sample whose coherence index is
\* present and below the threshold has COHERENCE_LOW, readiness < 0.80 and a
\* gate other than ALLOW.
C12_LowCoherenceNotAllowed ==
  (/\ Accepted
   /\ is_finite(sig.coherence_index)
   /\ DLt(sig.coherence_index, cfg_.coherence_allow_threshold))
  => (/\ FLAG_COHERENCE_LOW \in out.flags
      /\ DLt(out.readiness, Fin(4, 5))
      /\ out.gate # ALLOW)

\* C12 witness: low coherence is the only violation, the gate is CAUTION
C12_Witness ==
  /\ Accepted
  /\ out.flags = {FLAG_COHERENCE_LOW}
  /\ out.gate = CAUTION

\* the persistent-trend flags of a non-fail-safe verdict follow the timer
\* and the sign of the trend
PersistentFlagsRule ==
  Accepted =>
    /\ (FLAG_PERSISTENT_HEATING \in out.flags
          <=> (DGe(trend_age_s_, cfg_.persistence_s) /\ DGt(trend_dTdt_, Zero)))
    /\ (FLAG_PERSISTENT_COOLING \in out.flags
          <=> (DGe(trend_age_s_, cfg_.persistence_s) /\ DLt(trend_dTdt_, Zero)))
    /\ ~(FLAG_PERSISTENT_HEATING \in out.flags /\ FLAG_PERSISTENT_COOLING \in out.flags)
    /\ (trend_dTdt_ = Zero
          => (/\ FLAG_PERSISTENT_HEATING \notin out.flags
              /\ FLAG_PERSISTENT_COOLING \notin out.flags))

----------------------------------------------------------------------------
(* Vocabulary of the store claims *)

\* the snapshot a completed update(signals, output) stands for
SnapshotOf(e) ==
  [timestamp |-> e.timestamp,
   t_s |-> e.signals.t_s,
   readiness |-> e.output.readiness,
   gate |-> e.output.gate,
   flags |-> e.output.flags,
   temp_C |-> e.signals.temp_C,
   temp_ambient_C |-> e.signals.temp_ambient_C,
   dTdt_C_per_s |-> e.output.dTdt_C_per_s,
   trend_C |-> e.output.trend_C,
   stability_score |-> e.output.stability_score,
   hysteresis_index |-> e.signals.hysteresis_index,
   coherence_index |-> e.signals.coherence_index]

\* the snapshots of the n most recent of the first k completed updates,
\* oldest first
Recent(n, k) == [i \in 1..n |-> SnapshotOf(log[k - n + i])]

\* no update or setMaxHistorySize call is under way
WriterIdle == pc[Writer] = "idle"

\* C14: whenever update or setMaxHistorySize has completed, the history is
\* no longer than the configured maximum (0 included) and holds the most
\* recent updates without a gap: eviction took the oldest entries.
C14_BoundedHistory ==
  WriterIdle =>
    /\ Len(history_) <= max_history_size_
    /\ Len(history_) <= Len(log)
    /\ history_ = Recent(Len(history_), Len(log))

\* C14 witness: an update on a full history completed and evicted the oldest
\* entry
C14_Witness ==
  /\ WriterIdle
  /\ call.name = "update"
  /\ max_history_size_ >= 1
  /\ Len(call.pre_history) = max_history_size_
  /\ Len(history_) = max_history_size_
  /\ history_[Len(history_)] = current_

\* the last call of reader r has returned
Returned(r) == ret[r].done

\* C15: when the history bound m was set before the first update, a
\* history(n) that returns after k updates yields exactly the min(n, m, k)
\* most recent updates, oldest first, and /api/history is built from
\* history(100).
C15_HistoryContent ==
  (Returned(Reader2) /\ ~resized) =>
    LET k == ret[Reader2].updates
        c == min(ret[Reader2].max_count, min(max_history_size_, k))
        value == ret[Reader2].value
    IN  /\ ret[Reader2].name = "getHistory" => value = Recent(c, k)
        /\ ret[Reader2].name = "handleHistory" =>
             /\ ret[Reader2].max_count = ApiHistoryCount
             /\ value.count = c
             /\ Len(value.samples) = c
             /\ \A i \in 1..c :
                  /\ value.samples[i].timestamp_s = Recent(c, k)[i].t_s
                  /\ value.samples[i].readiness = Recent(c, k)[i].readiness
                  /\ value.samples[i].gradient_C_per_s =
                       Recent(c, k)[i].dTdt_C_per_s

\* C15 witness: with the bound at MaxHistory from the start and MaxUpdates
\* updates made, history(100) returned the MaxHistory most recent ones
C15_Witness ==
  /\ Returned(Reader2)
  /\ ~resized
  /\ ret[Reader2].name = "getHistory"
  /\ ret[Reader2].max_count = ApiHistoryCount
  /\ ret[Reader2].updates = MaxUpdates
  /\ max_history_size_ = MaxHistory
  /\ Len(ret[Reader2].value) = MaxHistory
  /\ ret[Reader2].value[MaxHistory] = SnapshotOf(log[MaxUpdates])

\* the current snapshot once k updates have completed
Committed(k) == IF k = 0 THEN ReadinessSnapshot ELSE SnapshotOf(log[k])

\* C16: with one writer and concurrent readers, a returned snapshot is the
\* whole snapshot of the last update completed before the read (or the
\* constructor's), and a returned history consists of whole snapshots of
\* consecutive completed updates up to that one, at most max_count of them.
C16_NoTornReads ==
  /\ Returned(Reader1) =>
       ret[Reader1].value = Committed(ret[Reader1].updates)
  /\ (Returned(Reader2) /\ ret[Reader2].name = "getHistory") =>
       \E c \in 0..ret[Reader2].updates :
         /\ c <= ret[Reader2].max_count
         /\ ret[Reader2].value = Recent(c, ret[Reader2].updates)

\* C16 witness: both readers hold what they read after the first update
\* while the writer is half way through writing a later one
C16_Witness ==
  /\ pc[Writer] = "update_tail"
  /\ Returned(Reader1)
  /\ ret[Reader1].updates >= 1
  /\ ret[Reader1].updates = Len(log)
  /\ ret[Reader1].value # current_
  /\ Returned(Reader2)
  /\ ret[Reader2].name = "getHistory"
  /\ Len(ret[Reader2].value) >= 1

\* C17: a current snapshot read after an update completed and before the
\* next one completes carries exactly that update's sample fields and
\* verdict fields, an absent index stays absent, and outside update and
\* setMaxHistorySize the newest entry of a non-empty history is the current
\* snapshot.
C17_LatestSnapshot ==
  /\ (Returned(Reader1) /\ ret[Reader1].updates >= 1) =>
       LET e == log[ret[Reader1].updates]
           snapshot == ret[Reader1].value
       IN  /\ snapshot.t_s = e.signals.t_s
           /\ snapshot.temp_C = e.signals.temp_C
           /\ snapshot.temp_ambient_C = e.signals.temp_ambient_C
           /\ snapshot.hysteresis_index = e.signals.hysteresis_index
           /\ snapshot.coherence_index = e.signals.coherence_index
           /\ is_finite(snapshot.hysteresis_index)
                <=> is_finite(e.signals.hysteresis_index)
           /\ is_finite(snapshot.coherence_index)
                <=> is_finite(e.signals.coherence_index)
           /\ snapshot.readiness = e.output.readiness
           /\ snapshot.gate = e.output.gate
           /\ snapshot.flags = e.output.flags
           /\ snapshot.dTdt_C_per_s = e.output.dTdt_C_per_s
           /\ snapshot.trend_C = e.output.trend_C
           /\ snapshot.stability_score = e.output.stability_score
  /\ (WriterIdle /\ Len(history_) > 0) => history_[Len(history_)] = current_

\* C17 witness: an update with absent indices followed one with present
\* indices, and the snapshot read after it has absent indices and a finite
\* temperature
C17_Witness ==
  /\ WriterIdle
  /\ Len(history_) > 0
  /\ Returned(Reader1)
  /\ ret[Reader1].updates = Len(log)
  /\ Len(log) >= 2
  /\ is_finite(log[Len(log) - 1].signals.hysteresis_index)
  /\ ~is_finite(ret[Reader1].value.hysteresis_index)
  /\ ~is_finite(ret[Reader1].value.coherence_index)
  /\ is_finite(ret[Reader1].value.temp_C)

\* the c newest entries of history h, oldest first
Newest(h, c) == [i \in 1..c |-> h[Len(h) - c + i]]

\* C18: when setMaxHistorySize(n) has completed, the history holds exactly
\* the min(n, previous length) newest entries it held before, in their
\* order, the bound is n and the current snapshot is as before; so a bound
\* raised above the length brings nothing back.
C18_SetMaxHistory ==
  (WriterIdle /\ call.name = "setMaxHistorySize") =>
    /\ max_history_size_ = call.size
    /\ history_ = Newest(call.pre_history,
                         min(call.size, Len(call.pre_history)))
    /\ Len(history_) <= Len(call.pre_history)
    /\ current_ = call.pre_current

\* C18 witness: entries were evicted under a smaller bound, the bound was
\* then raised above the length, and the history is still the shorter one
C18_Witness ==
  /\ WriterIdle
  /\ call.name = "setMaxHistorySize"
  /\ call.size > Len(call.pre_history)
  /\ Len(history_) >= 1
  /\ Len(log) > Len(history_)
  /\ history_ = call.pre_history

----------------------------------------------------------------------------
(* Properties of the server lifecycle *)

\* an accept-loop thread exists and has not finished
LoopAlive(t) == loop_pc[t] \notin {"none", "done"}

\* C19: whenever stop() has returned after a start() that returned true,
\* every accept-loop thread has exited and has been joined, no listening
\* socket is open, and running_ was false as stop() returned.
C19_StopReachesStopped ==
  (main_pc = "idle" /\ result.name = "stop" /\ phase # "started") =>
    /\ \A t \in LoopThreads : ~LoopAlive(t)
    /\ server_thread_ = 0
    /\ open_fds = {}
    /\ server_socket_ = -1
    /\ result.value = FALSE

\* C20: an isRunning() call made after start() returned true and before
\* stop() is called returns true.
C20_StartReachesRunning ==
  (phase = "started" /\ result.name = "isRunning") => result.value = TRUE

\* C21: between a start() that returned true and the next stop(), no
\* start() call gets past the running_ test: the owner stays outside
\* start(), the one listening socket stays open and in server_socket_, and
\* the program goes on.
C21_SecondStartRefused ==
  phase = "started" =>
    /\ main_pc = "idle"
    /\ open_fds = {server_socket_}
    /\ ~terminated

\* C22: at most one accept-loop thread is alive at any time.
C22_SingleAcceptLoop ==
  Cardinality({t \in LoopThreads : LoopAlive(t)}) <= 1

\* C23: once stop() has set should_stop_, the accept-loop thread exits and
\* stop() returns, and in between at most one accept call returns.
C23_StopTerminates ==
  /\ [](waits <= 1)
  /\ (main_pc = "stop_join") ~>
       (/\ main_pc = "idle" /\ result.name = "stop"
        /\ \A t \in LoopThreads : ~LoopAlive(t))

\* stop() has returned after an accept call that was under way when the
\* flag was set
C23_Witness ==
  /\ main_pc = "idle" /\ result = [name |-> "stop", value |-> FALSE]
  /\ should_stop_ /\ waits = 1
  /\ \A t \in LoopThreads : ~LoopAlive(t)

\* the connections accept has returned that were not closed yet
OpenConnections == {c \in 1..connections : closes[c] = 0}

\* C24: an accept-loop thread is at its flag test, in accept or past the
\* loop only when it holds no connection, and at most one accepted
\* connection is open at any time.
C24_OneConnectionAtATime ==
  /\ \A t \in LoopThreads :
       loop_pc[t] \in {"check", "accept", "exit", "done"} =>
         client[t] = NoClient
  /\ Cardinality(OpenConnections) <= 1

\* the accept-loop thread that holds connection c and has not closed it
Handling(c) ==
  {t \in LoopThreads :
     /\ client[t].id = c
     /\ loop_pc[t] \in {"handle", "dispatch", "read_lock", "read_copy",
                        "send", "close"}}

\* C25: no connection is closed twice, a connection that is open is the
\* one an accept-loop thread inside the loop body is handling, and every
\* connection that was handled, whatever the response, was closed once.
C25_ClosedExactlyOnce ==
  /\ \A c \in 1..MaxClients : closes[c] <= 1
  /\ \A c \in OpenConnections : Handling(c) # {}
  /\ \A c \in (1..MaxClients) \ OpenConnections : Handling(c) = {}
  /\ \A i \in 1..Len(served) : closes[served[i].id] = 1
  /\ \A t \in LoopThreads :
       loop_pc[t] \in {"exit", "done"} => OpenConnections = {}

\* the accept loop has exited after a connection that sent nothing and one
\* that got a 500 were closed
C25_Witness ==
  /\ \E t \in LoopThreads : loop_pc[t] = "done"
  /\ \E i \in 1..Len(served) : ~served[i].read /\ served[i].status = 0
  /\ \E i \in 1..Len(served) : served[i].status = 500
  /\ OpenConnections = {}

----------------------------------------------------------------------------
(* Properties of request handling *)

\* the request line: the longest prefix of the text without a newline
RequestLine(text) ==
  CHOOSE line \in {SubSeq(text, 1, k) : k \in 0..Len(text)} :
    /\ \A i \in 1..Len(line) : line[i] # "\n"
    /\ Len(line) < Len(text) => text[Len(line) + 1] = "\n"

\* the tokens of a line, in order
Tokens(line) == SelectSeq(line, LAMBDA c : c \notin {" ", "\t", "\r", "\n"})

\* the six routed paths
RoutedPaths ==
  {"/health", "/api/readiness", "/api/thermal", "/api/history",
   "/api/phase_context", "/api/diagnostics"}

\* the status the mapping gives to a request
MappedStatus(request) ==
  LET tokens == Tokens(RequestLine(request))
  IN  IF Len(tokens) < 3 THEN 400
      ELSE IF tokens[1] # "GET" THEN 405
      ELSE IF tokens[2] \notin RoutedPaths THEN 404
      ELSE 200

\* the connections whose response is made: those handled so far and those
\* an accept-loop thread is about to answer or to close
Answered ==
  {served[i] : i \in 1..Len(served)} \cup
  {client[t] : t \in {u \in LoopThreads : loop_pc[u] \in {"send", "close"}}}

\* C26: unless a handler failed, the status of every response is 400 for
\* a request line with fewer than three tokens, else 405 for another
\* method than GET, else 404 for a path that is not routed, else 200.
C26_StatusMapping ==
  \A a \in Answered :
    a.read /\ ~a.threw => a.status = MappedStatus(a.request)

\* a POST to a routed path was answered 405 and a request line without a
\* version 400
C26_Witness ==
  /\ \E a \in Answered :
       /\ a.read /\ a.status = 405
       /\ Tokens(RequestLine(a.request))[2] \in RoutedPaths
  /\ \E a \in Answered :
       /\ a.read /\ a.status = 400
       /\ Len(Tokens(RequestLine(a.request))) = 2

C28_ReadOnlyDispatcher ==
  /\ [][loop_pc' # loop_pc =>
          UNCHANGED <<current_, history_, max_history_size_, has_prev_,
                      prev_t_s_, prev_temp_C_, trend_dTdt_,
                      trend_age_s_>>]_vars
  /\ [][<<current_, history_, max_history_size_>>' #
          <<current_, history_, max_history_size_>> =>
            pc[Writer] \in {"update_head", "update_tail", "update_push",
                            "update_trim", "setmax_assign",
                            "setmax_trim"}]_vars

\* a request that reads the store was answered after an update, and the
\* store still holds what the update wrote
C28_Witness ==
  /\ \E a \in Answered : a.read /\ a.store # <<>> /\ a.store[2] # <<>>
  /\ Len(log) > 0 /\ WriterIdle
  /\ current_ = SnapshotOf(log[Len(log)])

\* the method, path and version tokens of a request line, as far as they
\* are there
LineTokens(request) ==
  LET tokens == Tokens(RequestLine(request))
  IN  SubSeq(tokens, 1, IF Len(tokens) < 3 THEN Len(tokens) ELSE 3)

\* C29: two requests with the same method, path and version tokens on the
\* request line, answered from the same store state without a handler
\* failure, get the same response, whatever follows the request line.
C29_OnlyRequestLineMatters ==
  \A a, b \in Answered :
    /\ a.read /\ b.read /\ ~a.threw /\ ~b.threw
    /\ LineTokens(a.request) = LineTokens(b.request)
    /\ a.store = b.store
    => a.status = b.status /\ a.response = b.response

\* two requests for /api/readiness that differ in headers and body were
\* answered from the same store state, after an update
C29_Witness ==
  \E a, b \in Answered :
    /\ a.read /\ b.read /\ ~a.threw /\ ~b.threw
    /\ a.request # b.request
    /\ LineTokens(a.request) = LineTokens(b.request)
    /\ a.parsed.path = <<"/api/readiness">>
    /\ a.store = b.store /\ a.store[2] # <<>>
    /\ a.response = b.response

\* C30: the accept-loop thread holds the store's lock only between the
\* entry of getCurrentSnapshot / getHistory and their return, never in
\* accept, recv, send or close; whoever holds the lock can take its next
\* step; so the lock is free again and again and an update that has begun
\* completes, however long the socket calls take.
C30_ProducerNotBlocked ==
  /\ [](mutex_ = Handler <=> \E t \in LoopThreads : loop_pc[t] = "read_copy")
  /\ [](mutex_ = Writer <=> ~WriterIdle)
  /\ [](mutex_ = Reader1 <=> pc[Reader1] = "copy")
  /\ [](mutex_ # "free" => ENABLED <<HolderStep>>_vars)
  /\ []<>(mutex_ = "free")
  /\ ~WriterIdle ~> WriterIdle

\* an update has begun and completed while a connection was open: its
\* handler had read the store before the update and has not sent yet
C30_Witness ==
  /\ \E t \in LoopThreads :
       /\ loop_pc[t] = "send"
       /\ client[t].store # <<>>
       /\ client[t].store[1] = ReadinessSnapshot
  /\ WriterIdle /\ Len(log) > 0 /\ call.name = "update"
  /\ mutex_ = "free"

----------------------------------------------------------------------------
(* Properties of the rejection checks and of the accepted path *)

\* the flags raised by the eligibility constraints of Step 7
ConstraintFlags ==
  {FLAG_TEMP_OUT_OF_RANGE, FLAG_GRADIENT_TOO_HIGH, FLAG_PERSISTENT_HEATING,
   FLAG_PERSISTENT_COOLING, FLAG_HYSTERESIS_HIGH, FLAG_COHERENCE_LOW}

\* C31: the rejection checks are applied in the order input validation,
\* bootstrap, dt <= 0, dt > max gap, glitch guard, and the first that fires
\* decides the verdict: a fail-safe verdict carries FAILSAFE_DEFAULT, exactly
\* one of INPUT_INVALID and STALE_OR_NONMONO and no constraint flag; an
\* invalid sample on a fresh engine is reported INPUT_INVALID; a sample with
\* both an excessive gap and an excessive jump is reported STALE_OR_NONMONO.
C31_CheckOrder ==
  Evaluated =>
    /\ (FLAG_FAILSAFE_DEFAULT \in out.flags =>
          /\ (FLAG_INPUT_INVALID \in out.flags)
               # (FLAG_STALE_OR_NONMONO \in out.flags)
          /\ out.flags \cap ConstraintFlags = {})
    /\ (~ValidInput(sig) =>
          out.flags = {FLAG_FAILSAFE_DEFAULT, FLAG_INPUT_INVALID})
    /\ (ValidInput(sig) /\ ~pre.has_prev_ =>
          out.flags = {FLAG_FAILSAFE_DEFAULT, FLAG_STALE_OR_NONMONO})
    /\ (ValidInput(sig) /\ pre.has_prev_ /\ DLe(dtLast, Zero) =>
          out.flags = {FLAG_FAILSAFE_DEFAULT, FLAG_STALE_OR_NONMONO})
    /\ (ValidInput(sig) /\ pre.has_prev_ /\ DGt(dtLast, cfg_.max_dt_s) =>
          out.flags = {FLAG_FAILSAFE_DEFAULT, FLAG_STALE_OR_NONMONO})
    /\ (PassedTemporal /\ DGt(jumpLast, max_abs_temp_jump_C) =>
          out.flags = {FLAG_FAILSAFE_DEFAULT, FLAG_INPUT_INVALID})
    /\ (PassedTemporal /\ DLe(jumpLast, max_abs_temp_jump_C) =>
          FLAG_FAILSAFE_DEFAULT \notin out.flags)

\* C31 witness: a sample whose gap exceeds the maximum gap and whose jump
\* exceeds both the guard's limit and the configured limit was reported as
\* STALE_OR_NONMONO
C31_Witness ==
  /\ Evaluated
  /\ pre.has_prev_
  /\ ValidInput(sig)
  /\ DGt(dtLast, cfg_.max_dt_s)
  /\ DGt(jumpLast, max_abs_temp_jump_C)
  /\ DGt(jumpLast, cfg_.max_abs_temp_jump_C)
  /\ out.flags = {FLAG_FAILSAFE_DEFAULT, FLAG_STALE_OR_NONMONO}

\* C32: when an engine holding a previous sample evaluates a valid sample
\* with dt greater than the maximum gap, it returns the fail-safe verdict
\* with STALE_OR_NONMONO, the sample becomes the previous sample, and the
\* smoothed trend and the persistence timer are left as they were.
C32_StaleGapPolicy ==
  (Evaluated /\ pre.has_prev_ /\ ValidInput(sig)
     /\ DGt(dtLast, cfg_.max_dt_s)) =>
    /\ FailSafeWith(out, FLAG_STALE_OR_NONMONO)
    /\ out.flags = {FLAG_FAILSAFE_DEFAULT, FLAG_STALE_OR_NONMONO}
    /\ has_prev_
    /\ prev_t_s_ = sig.t_s
    /\ prev_temp_C_ = sig.temp_C
    /\ trend_dTdt_ = pre.trend_dTdt_
    /\ trend_age_s_ = pre.trend_age_s_

\* C32 witness: a sample arrived too late on an engine whose trend and
\* timer had already moved, at a temperature other than the stored one
C32_Witness ==
  /\ Evaluated
  /\ pre.has_prev_
  /\ ValidInput(sig)
  /\ DGt(dtLast, cfg_.max_dt_s)
  /\ pre.trend_dTdt_ # Zero
  /\ pre.trend_age_s_ # Zero
  /\ sig.temp_C # pre.prev_temp_C_
  /\ prev_temp_C_ = sig.temp_C
  /\ trend_dTdt_ = pre.trend_dTdt_

\* C33: a sample rejected for invalid input (validity flag false, or a
\* non-finite timestamp or temperature) or rejected by the glitch guard gets
\* the INPUT_INVALID fail-safe and leaves every field of the engine memory
\* unchanged; an invalid first sample does not bootstrap the engine, so
\* every valid sample that may follow it still gets the bootstrap fail-safe.
C33_RejectionsKeepMemory ==
  (/\ Evaluated
   /\ \/ ~ValidInput(sig)
      \/ PassedTemporal /\ DGt(jumpLast, max_abs_temp_jump_C)) =>
    /\ FailSafeWith(out, FLAG_INPUT_INVALID)
    /\ Memory = pre
    /\ (~pre.has_prev_ =>
          /\ ~has_prev_
          /\ \A s \in ValidSignals :
                LET r == evaluate(cfg_, Memory, s)
                IN  /\ FailSafeWith(r.out, FLAG_STALE_OR_NONMONO)
                    /\ r.mem = store_prev(pre, s))

\* C33 witness: the glitch guard rejected a fall of the temperature on an
\* engine whose trend and timer had already moved
C33_Witness ==
  /\ PassedTemporal
  /\ DGt(jumpLast, max_abs_temp_jump_C)
  /\ DLt(sig.temp_C, pre.prev_temp_C_)
  /\ pre.trend_dTdt_ # Zero
  /\ pre.trend_age_s_ # Zero
  /\ FLAG_INPUT_INVALID \in out.flags
  /\ Memory = pre

\* C34: on every accepted sample the persistence timer grows by exactly dt
\* when the updated smoothed trend and the instantaneous derivative are both
\* >= 0 or both < 0, and is reset to zero otherwise; on every fail-safe
\* return it is left unchanged; it is never negative.
C34_PersistenceTimer ==
  /\ Accepted =>
        trend_age_s_ =
          IF \/ DGe(trend_dTdt_, Zero) /\ DGe(out.dTdt_C_per_s, Zero)
             \/ DLt(trend_dTdt_, Zero) /\ DLt(out.dTdt_C_per_s, Zero)
          THEN DAdd(pre.trend_age_s_, dtLast)
          ELSE Zero
  /\ (Evaluated /\ ~Accepted) => trend_age_s_ = pre.trend_age_s_
  /\ DGe(trend_age_s_, Zero)

\* C34 witness: the temperature stood still after a rise, and the timer,
\* already running, grew by dt
C34_Witness ==
  /\ Accepted
  /\ out.dTdt_C_per_s = Zero
  /\ DGt(trend_dTdt_, Zero)
  /\ DGt(pre.trend_age_s_, Zero)
  /\ trend_age_s_ = DAdd(pre.trend_age_s_, dtLast)

\* the fixed penalty of a constraint flag when it is among the flags
Penalty(flags, f, w) == IF f \in flags THEN w ELSE Zero

\* the sum of the penalties of the flags
PenaltySum(flags) ==
  DAdd(Penalty(flags, FLAG_TEMP_OUT_OF_RANGE, Fin(60, 100)),
  DAdd(Penalty(flags, FLAG_GRADIENT_TOO_HIGH, Fin(50, 100)),
  DAdd(Penalty(flags, FLAG_HYSTERESIS_HIGH, Fin(70, 100)),
  DAdd(Penalty(flags, FLAG_COHERENCE_LOW, Fin(30, 100)),
  DAdd(Penalty(flags, FLAG_PERSISTENT_HEATING, Fin(20, 100)),
       Penalty(flags, FLAG_PERSISTENT_COOLING, Fin(10, 100)))))))

\* C35: for every non-fail-safe verdict, readiness is 1.0 minus the sum of
\* the penalties of the active flags (0.60 TEMP_OUT_OF_RANGE, 0.50
\* GRADIENT_TOO_HIGH, 0.70 HYSTERESIS_HIGH, 0.30 COHERENCE_LOW, 0.20
\* PERSISTENT_HEATING, 0.10 PERSISTENT_COOLING), clamped into [0, 1]; in
\* every verdict 0 <= readiness <= 1 and stability score = readiness.
C35_ScoreAggregation ==
  /\ Accepted =>
        LET raw == DSub(One, PenaltySum(out.flags))
        IN  out.readiness = IF DLt(raw, Zero) THEN Zero
                            ELSE IF DGt(raw, One) THEN One
                            ELSE raw
  /\ DGe(out.readiness, Zero)
  /\ DLe(out.readiness, One)
  /\ out.stability_score = out.readiness

\* C35 witness: the penalties of an accepted sample add up to more than 1
\* and the readiness is clamped to 0
C35_Witness ==
  /\ Accepted
  /\ DGt(PenaltySum(out.flags), One)
  /\ out.readiness = Zero
  /\ out.stability_score = Zero

\* C36: in every verdict, gate = ALLOW implies readiness >= 0.80 and no
\* FAILSAFE_DEFAULT, critical or COHERENCE_LOW flag; gate = CAUTION implies
\* 0.40 <= readiness < 0.80; readiness < 0.40 implies gate = BLOCK; and
\* gate = BLOCK holds exactly when FAILSAFE_DEFAULT or a critical flag
\* (TEMP_OUT_OF_RANGE, GRADIENT_TOO_HIGH, HYSTERESIS_HIGH) is set.
C36_GateConsistency ==
  Evaluated =>
    LET critical == out.flags \cap {FLAG_TEMP_OUT_OF_RANGE,
                                     FLAG_GRADIENT_TOO_HIGH,
                                     FLAG_HYSTERESIS_HIGH} # {}
    IN  /\ out.gate = ALLOW =>
              /\ DGe(out.readiness, Fin(80, 100))
              /\ FLAG_FAILSAFE_DEFAULT \notin out.flags
              /\ ~critical
              /\ FLAG_COHERENCE_LOW \notin out.flags
        /\ out.gate = CAUTION =>
              /\ DGe(out.readiness, Fin(40, 100))
              /\ DLt(out.readiness, Fin(80, 100))
        /\ DLt(out.readiness, Fin(40, 100)) => out.gate = BLOCK
        /\ out.gate = BLOCK <=>
              (FLAG_FAILSAFE_DEFAULT \in out.flags \/ critical)

\* C36 witness: an accepted sample with low coherence and a persistent
\* heating trend, the lowest readiness without a critical flag, got CAUTION
C36_Witness ==
  /\ Accepted
  /\ out.flags = {FLAG_COHERENCE_LOW, FLAG_PERSISTENT_HEATING}
  /\ out.readiness = Fin(50, 100)
  /\ out.gate = CAUTION

----------------------------------------------------------------------------
(* Properties of sample streams *)

C38_CorruptTimestampRecovery ==
  (stream.phase = "corrupted" /\ stream.after >= 2) => stream.recovered

----------------------------------------------------------------------------
(* Properties of the store and of the server's lifecycle, continued *)

\* C39: a read that returned before the first update completed gives, for
\* getCurrentSnapshot, a snapshot with readiness 0, gate BLOCK, no flags and
\* non-finite temperature, ambient temperature, hysteresis and coherence,
\* and, for getHistory(n) and the history document, no sample; until the
\* first update has begun the store itself holds that snapshot and an
\* empty history, so such a read never shows ALLOW.
C39_SafeInitialStore ==
  /\ \A r \in Readers :
        (ret[r].done /\ ret[r].updates = 0) =>
          /\ ret[r].name = "getCurrentSnapshot" =>
                /\ ret[r].value.readiness = Zero
                /\ ret[r].value.gate = BLOCK
                /\ ret[r].value.gate # ALLOW
                /\ ret[r].value.flags = FLAG_NONE
                /\ ~is_finite(ret[r].value.temp_C)
                /\ ~is_finite(ret[r].value.temp_ambient_C)
                /\ ~is_finite(ret[r].value.hysteresis_index)
                /\ ~is_finite(ret[r].value.coherence_index)
          /\ ret[r].name = "getHistory" => ret[r].value = <<>>
          /\ ret[r].name = "handleHistory" =>
                ret[r].value.count = 0 /\ ret[r].value.samples = <<>>
  /\ (log = <<>> /\ call.name # "update") =>
        /\ current_.readiness = Zero
        /\ current_.gate = BLOCK
        /\ current_.flags = FLAG_NONE
        /\ ~is_finite(current_.temp_C)
        /\ history_ = <<>>

\* C39 witness: both readers polled before the first update completed, one
\* the current snapshot and one a history of up to 100 samples, and the
\* writer has since begun an update with gate ALLOW
C39_Witness ==
  /\ log = <<>>
  /\ ret[Reader1].done /\ ret[Reader1].name = "getCurrentSnapshot"
  /\ ret[Reader1].value.gate = BLOCK
  /\ ret[Reader2].done /\ ret[Reader2].name = "getHistory"
  /\ ret[Reader2].max_count = ApiHistoryCount
  /\ ret[Reader2].value = <<>>
  /\ call.name = "update" /\ call.output.gate = ALLOW

\* C40 (as claimed): whenever no start() or stop() call is in progress, the
\* listening socket is open and an unjoined accept-loop thread exists if and
\* only if running_ is true, also after the accept loop has exited on its
\* own, and the program has not been terminated by a start() or stop() call.
C40_LifecycleResources ==
  main_pc = "idle" =>
    /\ (server_socket_ \in open_fds /\ server_thread_ # 0) <=> running_
    /\ ~terminated

====
